---------------------------- MODULE Spec2Model ----------------------------
(***************************************************************************)
(* Heart-disease MLOps: the data cleaner and the preprocessor              *)
(* (src/src/data/pipeline.py), the training run (src/src/models/train.py), *)
(* the predictor (src/src/models/predict.py) and the serving layer         *)
(* (src/src/api/app.py) as state machines.                                 *)
(*                                                                         *)
(* Numbers in a table are held as twice their value (field "twice"), so    *)
(* that the median of an even count of integers, a half, is exact.         *)
(***************************************************************************)
EXTENDS Integers, Sequences, FiniteSets, TLC

\* ------------------------------------------------------------------ bounds
MaxRows == 3        \* rows of a table handed to clean_data
MaxCols == 3        \* columns of a table handed to clean_data
MaxVal == 1         \* feature values of a raw table are 0..MaxVal
MaxTarget == 2      \* raw target values are 0..MaxTarget

\* ------------------------------------------------------------- table cells
Num(x) == [kind |-> "num", twice |-> 2 * x]
NaN == [kind |-> "nan", twice |-> 0]
\* a string pandas cannot parse as a number, such as "?"
Unparseable == [kind |-> "str", twice |-> 0]

isna(c) == c.kind = "nan"

\* clean_data's column lists: one numerical and one categorical column stand
\* for the five and eight the code names, each of which it treats alike
numerical_cols == {"age"}
categorical_cols == {"sex"}
\* "extra" is a column of the file that neither list names
AllCols == {"target", "age", "sex", "extra"}

RawCells(col) ==
    IF col = "target" THEN {NaN} \cup {Num(v) : v \in 0..MaxTarget}
    ELSE IF col = "extra" THEN {NaN, Num(0)}
    ELSE {NaN, Unparseable} \cup {Num(v) : v \in 0..MaxVal}

FullRows ==
    [target : RawCells("target"), age : RawCells("age"),
     sex : RawCells("sex"), extra : RawCells("extra")]

\* the rows a raw table with the columns cols can hold
RawRows(cols) == {[c \in cols |-> r[c]] : r \in FullRows}

\* --------------------------------------------------------- pandas helpers
\* pd.to_numeric(errors="coerce") on one cell
to_numeric(c) == IF c.kind = "str" THEN NaN ELSE c

\* the values of a column that are not missing, in row order
Present(cells) == SelectSeq(cells, LAMBDA c : ~isna(c))

RECURSIVE Insert(_, _)
Insert(x, s) ==
    IF s = <<>> THEN <<x>>
    ELSE IF x <= Head(s) THEN <<x>> \o s
    ELSE <<Head(s)>> \o Insert(x, Tail(s))

RECURSIVE Sorted(_)
Sorted(s) == IF s = <<>> THEN <<>> ELSE Insert(Head(s), Sorted(Tail(s)))

\* a median that takes the lower middle value of an even count
medianLow(cells) ==
    LET p == Present(cells)
        s == Sorted([i \in 1..Len(p) |-> p[i].twice])
        n == Len(s)
    IN IF n = 0 THEN NaN
       ELSE [kind |-> "num", twice |-> s[(n + 1) \div 2]]

\* Series.median(): missing values are skipped; NaN when none is left
median(cells) ==
    LET p == Present(cells)
        s == Sorted([i \in 1..Len(p) |-> p[i].twice])
        n == Len(s)
    IN IF n = 0 THEN NaN
       ELSE IF n % 2 = 1 THEN [kind |-> "num", twice |-> s[(n + 1) \div 2]]
       ELSE [kind |-> "num", twice |-> (s[n \div 2] + s[n \div 2 + 1]) \div 2]

Count(cells, v) == Cardinality({i \in 1..Len(cells) : cells[i] = v})

\* Series.mode(): the most frequent values among those present, ascending;
\* empty when the column is entirely missing
mode(cells) ==
    LET p == Present(cells)
        vals == {p[i] : i \in 1..Len(p)}
    IN {v \in vals : \A w \in vals : Count(p, v) >= Count(p, w)}

\* mode()[0], the smallest of the modes
FirstMode(cells) ==
    LET m == mode(cells) IN CHOOSE v \in m : \A w \in m : v.twice <= w.twice

\* Series.fillna(value): filling with NaN leaves the column as it was
fillna(cells, value) ==
    [i \in 1..Len(cells) |-> IF isna(cells[i]) THEN value ELSE cells[i]]

\* a table is [columns, index, rows]: index holds the pandas row labels, which
\* a raw table numbers 0, 1, ... and dropna carries along with the rows it keeps
RangeIndex(n) == [i \in 1..n |-> i - 1]

SetColumn(t, col, cells) ==
    [t EXCEPT !.rows = [i \in 1..Len(t.rows) |-> [t.rows[i] EXCEPT ![col] = cells[i]]]]

\* ------------------------------------------------------------- clean_data
\* a binarisation that compares with >= instead of >
BinaryTargetGe(c) == IF c.kind = "num" /\ c.twice >= 0 THEN Num(1) ELSE Num(0)

\* (df["target"] > 0).astype(int): a missing target compares False
BinaryTarget(c) == IF c.kind = "num" /\ c.twice > 0 THEN Num(1) ELSE Num(0)

BinarizeTarget(t) ==
    IF "target" \in t.columns
    THEN SetColumn(t, "target",
            [i \in 1..Len(t.rows) |-> BinaryTarget(t.rows[i]["target"])])
    ELSE t

ImputeNumerical(t, col) ==
    IF col \in t.columns
    THEN LET coerced == [i \in 1..Len(t.rows) |-> to_numeric(t.rows[i][col])]
         IN SetColumn(t, col, fillna(coerced, median(coerced)))
    ELSE t

\* a fill that forgets the default of a column without a mode
CategoricalFillNoDefault(cells) ==
    IF mode(cells) # {} THEN FirstMode(cells) ELSE NaN

\* df[col].mode()[0] if not df[col].mode().empty else 0
CategoricalFill(cells) ==
    IF mode(cells) # {} THEN FirstMode(cells) ELSE Num(0)

ImputeCategorical(t, col) ==
    IF col \in t.columns
    THEN LET coerced == [i \in 1..Len(t.rows) |-> to_numeric(t.rows[i][col])]
         IN SetColumn(t, col, fillna(coerced, CategoricalFill(coerced)))
    ELSE t

\* the frame as it stands after both imputation loops, before dropna
Imputed(t) ==
    LET t1 == BinarizeTarget(t)
        t2 == ImputeNumerical(t1, "age")
    IN ImputeCategorical(t2, "sex")

RowHasNa(t, i) == \E c \in t.columns : isna(t.rows[i][c])

\* a dropna(how="all"): only the rows that are missing in every column go
dropnaAll(t) ==
    LET keep == SelectSeq([i \in 1..Len(t.rows) |-> i],
                          LAMBDA i : \E c \in t.columns : ~isna(t.rows[i][c]))
    IN [columns |-> t.columns,
        index |-> [j \in 1..Len(keep) |-> t.index[keep[j]]],
        rows |-> [j \in 1..Len(keep) |-> t.rows[keep[j]]]]

\* DataFrame.dropna(): the rows without a missing cell, in order, each under
\* the label it had
dropna(t) ==
    LET keep == SelectSeq([i \in 1..Len(t.rows) |-> i], LAMBDA i : ~RowHasNa(t, i))
    IN [columns |-> t.columns,
        index |-> [j \in 1..Len(keep) |-> t.index[keep[j]]],
        rows |-> [j \in 1..Len(keep) |-> t.rows[keep[j]]]]

clean_data(t) == dropna(Imputed(t))

\* -------------------------------------------------- training run: config
MaxModels == 2      \* entries of config["model"]["models_to_train"]
MaxAuc == 2         \* roc_auc takes the values 1..MaxAuc
MaxSamples == 4     \* rows of the data file of a training run

\* the identifiers get_model knows
RegisteredModels == {"logistic_regression", "random_forest"}
\* the identifiers a configuration may name
ModelIds == RegisteredModels \cup {"svm"}

\* config["model"], as the test fixture gives it
ModelConfig ==
    [logistic_regression |-> [C |-> 1, max_iter |-> 100, random_state |-> 42],
     random_forest |-> [n_estimators |-> 10, max_depth |-> 5, random_state |-> 42]]

\* the values of config["data"]["test_size"] of a run, as fractions
TestSizes == {[num |-> 1, den |-> 5], [num |-> 1, den |-> 2]}

\* the model-independent part of a configuration
Config(mtt, ts) ==
    [model |-> ModelConfig, models_to_train |-> mtt, test_size |-> ts]

\* a model instance that was never made
NoModel == [class |-> "None", params |-> <<>>, ok |-> FALSE]

\* get_model falling back to logistic regression for an unknown name
get_modelDefault(model_name, model_config) ==
    IF model_name = "random_forest"
    THEN [class |-> "RandomForestClassifier",
          params |-> model_config["random_forest"], ok |-> TRUE]
    ELSE [class |-> "LogisticRegression",
          params |-> model_config["logistic_regression"], ok |-> TRUE]

\* get_model returning nothing, without an error, for an unknown name
get_modelSilent(model_name, model_config) ==
    IF model_name = "logistic_regression"
    THEN [class |-> "LogisticRegression",
          params |-> model_config["logistic_regression"], ok |-> TRUE]
    ELSE IF model_name = "random_forest"
    THEN [class |-> "RandomForestClassifier",
          params |-> model_config["random_forest"], ok |-> TRUE]
    ELSE [class |-> "None", params |-> <<>>, ok |-> TRUE]

\* get_model: ok is FALSE when it raises ValueError("Unknown model: ...")
get_model(model_name, model_config) ==
    IF model_name = "logistic_regression"
    THEN [class |-> "LogisticRegression",
          params |-> model_config["logistic_regression"], ok |-> TRUE]
    ELSE IF model_name = "random_forest"
    THEN [class |-> "RandomForestClassifier",
          params |-> model_config["random_forest"], ok |-> TRUE]
    ELSE NoModel

\* ------------------------------------------------ training run: the data
\* the rows of a data file: a target, a numerical and a categorical feature
SampleRows ==
    [target : {Num(v) : v \in 0..MaxTarget}, age : {Num(v) : v \in 0..MaxVal},
     sex : {Num(v) : v \in 0..MaxVal}]

TrainCols == {"target", "age", "sex"}

\* get_feature_target_split: X is the frame without the target column
FeaturesOf(t) ==
    [columns |-> t.columns \ {"target"},
     index |-> t.index,
     rows |-> [i \in 1..Len(t.rows) |-> [c \in t.columns \ {"target"} |-> t.rows[i][c]]]]

\* get_feature_target_split: y is the target column, as 0 or 1
TargetOf(t) == [i \in 1..Len(t.rows) |-> t.rows[i]["target"].twice \div 2]

RECURSIVE GCD(_, _)
GCD(a, b) == IF b = 0 THEN a ELSE GCD(b, a % b)

\* the fraction n / d in lowest terms
Ratio(n, d) == LET g == GCD(n, d) IN [num |-> n \div g, den |-> d \div g]

RECURSIVE SumSeq(_)
SumSeq(s) == IF s = <<>> THEN 0 ELSE Head(s) + SumSeq(Tail(s))

\* what fitting the ColumnTransformer on the rows at idx learns: the
\* numerical median, mean and variance, and the categorical most frequent
\* value and one-hot vocabulary
FitOn(Xt, idx) ==
    LET ids == SelectSeq([i \in 1..Len(Xt.rows) |-> i], LAMBDA i : i \in idx)
        n == Len(ids)
        ages == [j \in 1..n |-> Xt.rows[ids[j]]["age"]]
        sexes == [j \in 1..n |-> Xt.rows[ids[j]]["sex"]]
        a == [j \in 1..n |-> ages[j].twice]
        sum == SumSeq(a)
        sumsq == SumSeq([j \in 1..n |-> a[j] * a[j]])
    IN [median |-> median(ages),
        mean |-> Ratio(sum, n),
        var |-> Ratio(n * sumsq - sum * sum, n * n),
        most_frequent |-> FirstMode(sexes),
        categories |-> {sexes[j] : j \in 1..n}]

\* preprocessor.fit_transform(X) in prepare_data: fit on every row of X
fit_transform(Xt) == FitOn(Xt, 1..Len(Xt.rows))

NotFitted == [median |-> NaN]

\* ------------------------------------------------ training run: the split
ClassCount(yy, c) == Cardinality({i \in 1..Len(yy) : yy[i] = c})

Classes(yy) == {yy[i] : i \in 1..Len(yy)}

NTestFloor(n, ts) == (ts.num * n) \div ts.den

\* n_test = ceil(test_size * n_samples)
NTest(n, ts) == (ts.num * n + ts.den - 1) \div ts.den

\* n_train = n_samples - n_test
NTrain(n, ts) == n - NTest(n, ts)

SplitFailsLenient(yy, ts) ==
    LET n == Len(yy)
    IN \/ NTrain(n, ts) = 0
       \/ NTrain(n, ts) < Cardinality(Classes(yy))
       \/ NTest(n, ts) < Cardinality(Classes(yy))

\* the conditions under which the stratified split raises ValueError
SplitFails(yy, ts) ==
    LET n == Len(yy)
    IN \/ NTrain(n, ts) = 0
       \/ \E c \in Classes(yy) : ClassCount(yy, c) < 2
       \/ NTrain(n, ts) < Cardinality(Classes(yy))
       \/ NTest(n, ts) < Cardinality(Classes(yy))

\* _approximate_mode: the per-class numbers of train rows it can return; the
\* floor of each class's share, and the rows still owed go to the classes
\* with the largest remainders, ties broken by the random state
TrainAllocations(yy, ts) ==
    LET n == Len(yy)
        cs == Classes(yy)
        draws == NTrain(n, ts)
        floored == [c \in cs |-> (ClassCount(yy, c) * draws) \div n]
        rem == [c \in cs |-> (ClassCount(yy, c) * draws) % n]
        need == draws - SumSeq([k \in 1..2 |-> IF (k - 1) \in cs THEN floored[k - 1] ELSE 0])
    IN {[c \in cs |-> floored[c] + (IF c \in add THEN 1 ELSE 0)] :
            add \in {A \in SUBSET cs :
                        /\ Cardinality(A) = need
                        /\ \A x \in A : \A z \in cs \ A : rem[x] >= rem[z]}}

\* the train partitions split_data can return; the test partition is the rest
TrainPartitions(yy, ts) ==
    {S \in SUBSET (1..Len(yy)) :
        \E alloc \in TrainAllocations(yy, ts) :
            \A c \in Classes(yy) :
                Cardinality({i \in S : yy[i] = c}) = alloc[c]}

\* ------------------------------------------------------------- split_data
\* the largest target vector handed to split_data, the largest start of a
\* shuffled order, and the number of split_data calls in a row
MaxSplitRows == 12

MaxShift == 1

MaxCalls == 3

\* the seeds handed to split_data as random_state; 42 is the default
RandomStates == {42, 7}

\* what a random stream yields to one stratified split: which of two tied
\* classes gets the row still owed, and where the shuffled order of a class
\* starts
Streams == [tie : 0..1, shift : 0..MaxShift]

\* numpy's global stream at position pos
GlobalStream(pos) == [tie |-> pos % 2, shift |-> pos % (MaxShift + 1)]

check_random_stateGlobal(seed, table) == [global |-> TRUE, stream |-> table[seed]]

\* check_random_state: an int seed makes a fresh RandomState(seed), whose
\* stream depends on the seed alone
check_random_state(seed, table) == [global |-> FALSE, stream |-> table[seed]]

\* the j-th row of class c, counted from 1
NthOf(yy, c, j) ==
    CHOOSE i \in 1..Len(yy) :
        yy[i] = c /\ Cardinality({h \in 1..i : yy[h] = c}) = j

TrainRowsFirst(yy, ts, stream) == 1..NTrain(Len(yy), ts)

\* StratifiedShuffleSplit: the train rows of one split. _approximate_mode
\* gives each class its number of train rows, the stream settling a tie;
\* the rows of a class are taken in its shuffled order
TrainRows(yy, ts, stream) ==
    LET allocs == TrainAllocations(yy, ts)
        n_i == IF Cardinality(allocs) = 1
               THEN CHOOSE a \in allocs : TRUE
               ELSE CHOOSE a \in allocs : \A b \in allocs : a[stream.tie] >= b[stream.tie]
    IN UNION {{NthOf(yy, c, ((stream.shift + j) % ClassCount(yy, c)) + 1) :
                    j \in 0..(n_i[c] - 1)} : c \in Classes(yy)}

NoPartitions ==
    [raised |-> "ValueError", X_train |-> <<>>, X_test |-> <<>>,
     y_train |-> <<>>, y_test |-> <<>>]

\* split_data: train_test_split(X, y, test_size, random_state, stratify=y);
\* a partition is held as a map from the position of a row in X to the row
split_data(XX, yy, test_size, stream) ==
    IF SplitFails(yy, test_size)
    THEN NoPartitions
    ELSE LET train == TrainRows(yy, test_size, stream)
             test == (1..Len(yy)) \ train
         IN [raised |-> "none",
             X_train |-> [i \in train |-> XX[i]],
             X_test |-> [i \in test |-> XX[i]],
             y_train |-> [i \in train |-> yy[i]],
             y_test |-> [i \in test |-> yy[i]]]

\* --------------------------------------------------------- evaluate_model
\* the largest train and test partitions handed to evaluate_model, and the
\* number of evaluate_model calls in a row
MaxEvalTrain == 5

MaxEvalTest == 2

MaxEvalCalls == 2

\* the values of cv_folds
CvFolds == {2, 3}

\* a row of a partition: one binary feature and the target
EvalRows == [x : 0..1, label : 0..1]

LabelsOf(rows) == [i \in 1..Len(rows) |-> rows[i].label]

\* an estimator as get_model builds it
Unfitted(class) == [class |-> class, is_fitted |-> FALSE, table |-> <<>>]

\* model.fit on the rows at idx: the classifier is held as what it learned
\* per level of the feature, the positives and the rows seen (the whole
\* sample for a level it never met). LogisticRegression refuses a sample of
\* a single class.
estimator_fit(est, rows, idx) ==
    LET pos == [v \in 0..1 |-> Cardinality({i \in idx : rows[i].x = v /\ rows[i].label = 1})]
        seen == [v \in 0..1 |-> Cardinality({i \in idx : rows[i].x = v})]
    IN IF idx = {} \/ (est.class = "logistic_regression"
                       /\ Cardinality({rows[i].label : i \in idx}) < 2)
       THEN [raised |-> "ValueError", model |-> est]
       ELSE [raised |-> "none",
             model |-> [class |-> est.class, is_fitted |-> TRUE,
                        table |-> [v \in 0..1 |->
                            IF seen[v] = 0
                            THEN [pos |-> pos[0] + pos[1], total |-> seen[0] + seen[1]]
                            ELSE [pos |-> pos[v], total |-> seen[v]]]]]

\* sklearn's clone: an unfitted estimator with the same parameters
clone(est) == Unfitted(est.class)

\* model.predict_proba(X)[:, 1] for one row
estimator_predict_proba(est, row) ==
    Ratio(est.table[row.x].pos, est.table[row.x].total)

\* model.predict for one row
estimator_predict(est, row) ==
    IF 2 * est.table[row.x].pos > est.table[row.x].total THEN 1 ELSE 0

\* StratifiedKFold(n_splits) without shuffling: the fold, from 0, of each
\* row. The classes are numbered by first appearance; fold f is allotted, per
\* class, the number of that class among the positions f, f + n_splits, ...
\* of the sorted targets, and the rows of a class fill the folds in order.
test_folds(labels, n_splits) ==
    LET n == Len(labels)
        start(c) == IF labels[1] = c THEN 0 ELSE n - ClassCount(labels, c)
        upto(f, c) ==
            Cardinality({q \in start(c)..(start(c) + ClassCount(labels, c) - 1) :
                            q % n_splits <= f})
        rank(i) == Cardinality({h \in 1..i : labels[h] = labels[i]})
    IN [i \in 1..n |->
            CHOOSE f \in 0..(n_splits - 1) :
                /\ upto(f, labels[i]) >= rank(i)
                /\ \A g \in 0..(f - 1) : upto(g, labels[i]) < rank(i)]

\* accuracy_score
accuracy_score(y_true, y_pred) ==
    Ratio(Cardinality({i \in 1..Len(y_true) : y_true[i] = y_pred[i]}), Len(y_true))

\* the cells of the confusion matrix
Confusion(y_true, y_pred) ==
    [tp |-> Cardinality({i \in 1..Len(y_true) : y_true[i] = 1 /\ y_pred[i] = 1}),
     fp |-> Cardinality({i \in 1..Len(y_true) : y_true[i] = 0 /\ y_pred[i] = 1}),
     fn |-> Cardinality({i \in 1..Len(y_true) : y_true[i] = 1 /\ y_pred[i] = 0})]

\* a quotient that is 0.0 where its denominator is 0 (zero_division="warn")
SafeRatio(n, d) == IF d = 0 THEN [num |-> 0, den |-> 1] ELSE Ratio(n, d)

precision_scoreOverAll(y_true, y_pred) ==
    LET m == Confusion(y_true, y_pred) IN SafeRatio(m.tp + m.fp, m.tp)

\* precision_score
precision_score(y_true, y_pred) ==
    LET m == Confusion(y_true, y_pred) IN SafeRatio(m.tp, m.tp + m.fp)

\* recall_score
recall_score(y_true, y_pred) ==
    LET m == Confusion(y_true, y_pred) IN SafeRatio(m.tp, m.tp + m.fn)

\* f1_score
f1_score(y_true, y_pred) ==
    LET m == Confusion(y_true, y_pred) IN SafeRatio(2 * m.tp, 2 * m.tp + m.fp + m.fn)

\* roc_auc_score on both classes: the share of (positive, negative) pairs
\* the scores order rightly, a tie counting half
roc_auc_score(y_true, y_prob) ==
    LET pairs == {pq \in (1..Len(y_true)) \X (1..Len(y_true)) :
                        y_true[pq[1]] = 1 /\ y_true[pq[2]] = 0}
        above == {pq \in pairs :
                    y_prob[pq[1]].num * y_prob[pq[2]].den > y_prob[pq[2]].num * y_prob[pq[1]].den}
        level == {pq \in pairs : y_prob[pq[1]] = y_prob[pq[2]]}
    IN Ratio(2 * Cardinality(above) + Cardinality(level), 2 * Cardinality(pairs))

\* the root of a fraction, held by its radicand
Sqrt(r) == [sqrt |-> r]

RECURSIVE ProdSeq(_)
ProdSeq(s) == IF s = <<>> THEN 1 ELSE Head(s) * ProdSeq(Tail(s))

\* cv_scores.mean()
Mean(scores) ==
    IF \E i \in 1..Len(scores) : scores[i] = NaN THEN NaN
    ELSE LET D == ProdSeq([i \in 1..Len(scores) |-> scores[i].den])
             m == [i \in 1..Len(scores) |-> scores[i].num * (D \div scores[i].den)]
         IN Ratio(SumSeq(m), Len(scores) * D)

\* cv_scores.std(): the root of the mean squared distance from the mean
Std(scores) ==
    IF \E i \in 1..Len(scores) : scores[i] = NaN THEN NaN
    ELSE LET k == Len(scores)
             D == ProdSeq([i \in 1..k |-> scores[i].den])
             m == [i \in 1..k |-> scores[i].num * (D \div scores[i].den)]
         IN Sqrt(Ratio(k * SumSeq([i \in 1..k |-> m[i] * m[i]]) - SumSeq(m) * SumSeq(m),
                       k * k * D * D))

\* the accuracy on the rows of a fold of est fitted on the rows outside it;
\* nan when the fit raises
FoldScore(est, rows, fold, f) ==
    LET n == Len(rows)
        held == {i \in 1..n : fold[i] = f}
        m == estimator_fit(est, rows, {i \in 1..n : fold[i] # f})
    IN IF m.raised # "none" THEN NaN
       ELSE Ratio(Cardinality({i \in held :
                    estimator_predict(m.model, rows[i]) = rows[i].label}),
                  Cardinality(held))

\* the scores of the folds, or ValueError when every fit raised
CvResult(scores, after) ==
    IF \A f \in 1..Len(scores) : scores[f] = NaN
    THEN [raised |-> "ValueError", scores |-> <<>>, estimator |-> after]
    ELSE [raised |-> "none", scores |-> scores, estimator |-> after]

cross_val_scoreInPlace(est, rows, cv) ==
    LET labels == LabelsOf(rows)
        n == Len(rows)
    IN IF n < cv \/ \A c \in Classes(labels) : ClassCount(labels, c) < cv
       THEN [raised |-> "ValueError", scores |-> <<>>, estimator |-> est]
       ELSE CHOOSE r \in
                {CvResult([f \in 1..cv |-> FoldScore(est, rows, fold, f - 1)],
                          estimator_fit(est, rows, {i \in 1..n : fold[i] # cv - 1}).model) :
                    fold \in {test_folds(labels, cv)}} : TRUE

\* cross_val_score(model, X_train, y_train, cv, scoring="accuracy"): a clone
\* of the estimator is fitted on the rows outside each fold and scored, by
\* accuracy, on the fold; a fit that raises scores nan, and ValueError is
\* raised when every fit does, or when there are more folds than rows or
\* than the members of every class.
cross_val_score(est, rows, cv) ==
    LET labels == LabelsOf(rows)
        n == Len(rows)
    IN IF n < cv \/ \A c \in Classes(labels) : ClassCount(labels, c) < cv
       THEN [raised |-> "ValueError", scores |-> <<>>, estimator |-> est]
       ELSE CHOOSE r \in
                {CvResult([f \in 1..cv |-> FoldScore(clone(est), rows, fold, f - 1)], est) :
                    fold \in {test_folds(labels, cv)}} : TRUE

NoMetrics == <<>>

\* the metrics record, from the scores of the folds and the predictions on
\* the test partition
Metrics(scores, y_test, y_pred, y_prob) ==
    [cv_accuracy_mean |-> Mean(scores),
     cv_accuracy_std |-> Std(scores),
     test_accuracy |-> accuracy_score(y_test, y_pred),
     precision |-> precision_score(y_test, y_pred),
     recall |-> recall_score(y_test, y_pred),
     f1_score |-> f1_score(y_test, y_pred),
     roc_auc |-> roc_auc_score(y_test, y_prob)]

\* evaluate_model: the cross-validation on the train partition, then the
\* five metrics of the model's predictions on the test partition. predict
\* refuses an empty partition, roc_auc_score a partition of one class.
evaluate_model(model, train, test, cv_folds) ==
    CHOOSE r \in
        {IF cv.raised # "none" \/ Len(test) = 0 \/ Cardinality(Classes(LabelsOf(test))) < 2
         THEN [raised |-> "ValueError", metrics |-> NoMetrics, model |-> cv.estimator]
         ELSE [raised |-> "none",
               metrics |-> Metrics(cv.scores, LabelsOf(test),
                    [i \in 1..Len(test) |-> estimator_predict(cv.estimator, test[i])],
                    [i \in 1..Len(test) |-> estimator_predict_proba(cv.estimator, test[i])]),
               model |-> cv.estimator] :
            cv \in {cross_val_score(model, train, cv_folds)}} : TRUE

\* ------------------------------------------------- the registry scripts
\* (src/scripts/promote-model.py) the highest version number of a registered
\* model, and the largest keep_last
MaxVersions == 3

MaxKeep == 2

\* the registered models, in the order search_registered_models lists them
RegisteredNames == <<"heart-disease-logistic_regression", "heart-disease-random_forest">>

\* a name that is not registered
UnregisteredName == "heart-disease-svm"

\* model_name=None and version=None
NoName == "None"

NoVersion == 0

Stages == {"None", "Staging", "Production", "Archived"}

\* the stage of a version number that was deleted or never registered
NoStage == "absent"

IsRegistered(name) == \E i \in 1..Len(RegisteredNames) : RegisteredNames[i] = name

\* search_model_versions(name='...'): the versions of the model
VersionsOf(reg, name) ==
    IF IsRegistered(name) THEN {v \in DOMAIN reg[name] : reg[name][v] # NoStage} ELSE {}

Highest(S) == CHOOSE v \in S : \A w \in S : w <= v

\* get_latest_versions(name, stages=[stage]): the latest version in the stage
get_latest_versions(reg, name, stage) ==
    LET there == {v \in VersionsOf(reg, name) : reg[name][v] = stage}
    IN IF there = {} THEN {} ELSE {Highest(there)}

\* transition_model_version_stage, when it succeeds: the version takes the
\* stage, and with archive_existing_versions the versions that were in the
\* stage are archived
transition_model_version_stage(reg, name, version, stage, archive_existing_versions) ==
    [reg EXCEPT ![name] =
        [v \in DOMAIN @ |->
            IF v = version THEN stage
            ELSE IF archive_existing_versions /\ @[v] = stage THEN "Archived"
            ELSE @[v]]]

\* what the registry does to the calls of one promote_model: whether the
\* search, the lookup of the Production version and the archive call raise,
\* and how the two promotion calls end. A call that raises leaves the
\* registry as it was.
PromoteEnvs ==
    [search_fails : BOOLEAN, latest_fails : BOOLEAN, archive_fails : BOOLEAN,
     method1 : {"ok", "RepresentationError", "MlflowException"},
     method2 : {"ok", "RepresentationError"}]

\* promote_model: the value returned, the registry left behind and the
\* promotion methods tried
promote_model(reg, model_name, version, env) ==
    LET all_versions == VersionsOf(reg, model_name)
        target_version == IF version # NoVersion THEN version ELSE Highest(all_versions)
        production_versions == get_latest_versions(reg, model_name, "Production")
        archived ==
            IF production_versions = {} \/ env.archive_fails THEN reg
            ELSE transition_model_version_stage(reg, model_name,
                    Highest(production_versions), "Archived", FALSE)
    IN IF env.search_fails \/ all_versions = {}
       THEN [ret |-> FALSE, registry |-> reg, tried |-> <<>>]
       ELSE IF target_version \notin all_versions
       THEN [ret |-> FALSE, registry |-> reg, tried |-> <<>>]
       ELSE IF reg[model_name][target_version] = "Production"
       THEN [ret |-> TRUE, registry |-> reg, tried |-> <<>>]
       ELSE IF env.latest_fails
       THEN [ret |-> FALSE, registry |-> reg, tried |-> <<>>]
       ELSE IF env.method1 = "ok"
       THEN [ret |-> TRUE,
             registry |-> transition_model_version_stage(archived, model_name,
                              target_version, "Production", TRUE),
             tried |-> <<"method 1">>]
       ELSE IF env.method1 # "RepresentationError"
       THEN [ret |-> FALSE, registry |-> archived, tried |-> <<"method 1">>]
       ELSE IF env.method2 = "ok"
       THEN [ret |-> TRUE,
             registry |-> transition_model_version_stage(archived, model_name,
                              target_version, "Production", FALSE),
             tried |-> <<"method 1", "method 2">>]
       ELSE [ret |-> FALSE, registry |-> archived, tried |-> <<"method 1", "method 2">>]

\* what the registry does to the calls of one cleanup_old_versions: the
\* search that raises (a model's version search, the listing of the models,
\* or none) and the version numbers whose delete call raises
CleanupEnvs ==
    [search_fails : {RegisteredNames[i] : i \in 1..Len(RegisteredNames)}
                        \cup {"search_registered_models", "none"},
     delete_fails : SUBSET (1..MaxVersions)]

versions_to_deleteOldestKept(reg, name, keep_last) ==
    LET others == {v \in VersionsOf(reg, name) : reg[name][v] # "Production"}
    IN {v \in others : Cardinality({w \in others : w < v}) >= keep_last}

\* versions_to_delete of one model: from the highest version down, a
\* Production version is kept, the first keep_last others are kept, and the
\* rest is to delete
versions_to_delete(reg, name, keep_last) ==
    LET others == {v \in VersionsOf(reg, name) : reg[name][v] # "Production"}
    IN {v \in others : Cardinality({w \in others : w > v}) >= keep_last}

\* delete_model_version on each version to delete; one that raises is
\* reported and the loop goes on
delete_versions(reg, name, doomed, env) ==
    [reg EXCEPT ![name] =
        [v \in DOMAIN @ |-> IF v \in doomed \ env.delete_fails THEN NoStage ELSE @[v]]]

RECURSIVE cleanup_from(_, _, _, _, _)
\* the loop of cleanup_old_versions over the models, from the i-th on; a
\* version search that raises ends the call with False
cleanup_from(reg, models, i, keep_last, env) ==
    IF i > Len(models)
    THEN [ret |-> TRUE, registry |-> reg]
    ELSE IF env.search_fails = models[i]
    THEN [ret |-> FALSE, registry |-> reg]
    ELSE cleanup_from(delete_versions(reg, models[i],
                          versions_to_delete(reg, models[i], keep_last), env),
                      models, i + 1, keep_last, env)

\* cleanup_old_versions: the named model, or every registered model
cleanup_old_versions(reg, model_name, keep_last, env) ==
    LET models == IF model_name # NoName
                  THEN SelectSeq(RegisteredNames, LAMBDA name : name = model_name)
                  ELSE RegisteredNames
    IN IF env.search_fails = "search_registered_models" \/ models = <<>>
       THEN [ret |-> FALSE, registry |-> reg]
       ELSE cleanup_from(reg, models, 1, keep_last, env)

\* ---------------------------------------------- training run: selection
\* max(results, key=...) over the keys in insertion order: a later key
\* replaces the best so far only when its value is strictly greater
RECURSIVE PyMaxFrom(_, _, _)
PyMaxFromLast(keys, key, best) ==
    IF keys = <<>> THEN best
    ELSE PyMaxFrom(Tail(keys), key,
                   IF key[Head(keys)] >= key[best] THEN Head(keys) ELSE best)

PyMaxFrom(keys, key, best) ==
    IF keys = <<>> THEN best
    ELSE PyMaxFrom(Tail(keys), key,
                   IF key[Head(keys)] > key[best] THEN Head(keys) ELSE best)

PyMax(keys, key) == PyMaxFrom(Tail(keys), key, Head(keys))

\* results[model_name] = {...}: a new key goes last, a known key keeps its place
DictSet(d, k, v) ==
    [keys |-> IF \E i \in 1..Len(d.keys) : d.keys[i] = k THEN d.keys
              ELSE Append(d.keys, k),
     val |-> [x \in DOMAIN d.val \cup {k} |-> IF x = k THEN v ELSE d.val[x]]]

EmptyDict == [keys |-> <<>>, val |-> <<>>]

\* the Model Info record written to models/model_info.yaml
model_info(name, metrics, cfg) ==
    [model_name |-> name, metrics |-> metrics, config |-> cfg]

\* joblib.dump / yaml.dump that leaves the file as it was
save_Skip(files, path, content) == files

\* joblib.dump / yaml.dump to a path: the file is replaced
save_(files, path, content) == [files EXCEPT ![path] = content]

ArtifactPaths == {"best_model.joblib", "preprocessing_pipeline.joblib", "model_info.yaml"}

ArtifactOrderPreprocessorFirst ==
    <<"preprocessing_pipeline.joblib", "best_model.joblib", "model_info.yaml">>

\* the order in which train_all_models writes them
ArtifactOrder ==
    <<"best_model.joblib", "preprocessing_pipeline.joblib", "model_info.yaml">>

\* what a previous run may have left in models/
NoFiles == [f \in ArtifactPaths |-> [kind |-> "absent"]]
OldFiles == [f \in ArtifactPaths |-> [kind |-> "previous run"]]

\* the calls to the tracking collaborator made for one candidate
TrainCalls ==
    {"start_run", "log_params", "log_metric", "log_metrics", "log_figure",
     "log_model", "get_run"}

\* the calls of the promotion block
PromoteCalls ==
    {"search_model_versions", "set_model_version_tag", "set_registered_model_alias"}

NoError == [type |-> "none", call |-> "none"]

\* ------------------------------------------------ inference: the records
MaxDefects == 2     \* fields of a record that differ from the sample patient

\* FEATURE_SCHEMA of predict.py, its keys in their order, with min and max
SchemaOrder ==
    <<"age", "sex", "cp", "trestbps", "chol", "fbs", "restecg", "thalach",
      "exang", "oldpeak", "slope", "ca", "thal">>

SchemaKeys == {SchemaOrder[i] : i \in 1..Len(SchemaOrder)}

FEATURE_SCHEMA ==
    [k \in SchemaKeys |->
        CASE k = "age" -> [min |-> 0, max |-> 120]
          [] k \in {"sex", "fbs", "exang"} -> [min |-> 0, max |-> 1]
          [] k \in {"cp", "thal"} -> [min |-> 0, max |-> 3]
          [] k \in {"trestbps", "thalach"} -> [min |-> 50, max |-> 250]
          [] k = "chol" -> [min |-> 100, max |-> 600]
          [] k \in {"restecg", "slope"} -> [min |-> 0, max |-> 2]
          [] k = "oldpeak" -> [min |-> 0, max |-> 10]
          [] k = "ca" -> [min |-> 0, max |-> 4]]

\* a key a caller may send that the schema does not know
ExtraKey == "patient_id"

\* the sample patient of predict.py's __main__, as twice the values (oldpeak
\* 2.3 is held as 2.5, the nearest half)
sample_patient ==
    [k \in SchemaKeys |->
        CASE k = "age" -> Num(63)
          [] k \in {"sex", "fbs", "thal"} -> Num(1)
          [] k = "cp" -> Num(3)
          [] k = "trestbps" -> Num(145)
          [] k = "chol" -> Num(233)
          [] k = "thalach" -> Num(150)
          [] k = "oldpeak" -> [kind |-> "num", twice |-> 5]
          [] k \in {"restecg", "exang", "slope", "ca"} -> Num(0)]

Absent == [kind |-> "absent", twice |-> 0]

\* what a caller may put in one field instead of the sample patient's value:
\* nothing, the bounds, the values next to the bounds, 200, or a float NaN
Alternatives(k) ==
    {Absent, NaN, Num(200),
     Num(FEATURE_SCHEMA[k].min), Num(FEATURE_SCHEMA[k].max),
     Num(FEATURE_SCHEMA[k].min - 1), Num(FEATURE_SCHEMA[k].max + 1),
     [kind |-> "num", twice |-> 2 * FEATURE_SCHEMA[k].max + 1]}

\* a Python dict: its keys in insertion order and its values
Dict(order, cells) ==
    [keys |-> SelectSeq(order, LAMBDA k : cells[k].kind # "absent"),
     val |-> [k \in {q \in DOMAIN cells : cells[q].kind # "absent"} |-> cells[k]]]

\* the sample patient with the fields of ks replaced by alt, and the extra
\* key when extra says so
Record(ks, alt, extra) ==
    Dict(SchemaOrder \o <<ExtraKey>>,
         [k \in SchemaKeys \cup {ExtraKey} |->
            IF k = ExtraKey THEN (IF extra THEN Num(7) ELSE Absent)
            ELSE IF k \in ks THEN alt[k] ELSE sample_patient[k]])

\* ---------------------------------------------- inference: validate_features
Missing(key) == [kind |-> "missing", key |-> key]
OutOfRange(key) == [kind |-> "out of range", key |-> key]

\* value < b and value > b of Python, false for a NaN
Lt(c, b) == c.kind = "num" /\ c.twice < 2 * b
Gt(c, b) == c.kind = "num" /\ c.twice > 2 * b

MapSeq(s, Op(_)) == [i \in 1..Len(s) |-> Op(s[i])]

\* validate_features with exclusive bounds
validate_featuresExclusive(features) ==
    MapSeq(SelectSeq(SchemaOrder, LAMBDA key : key \notin DOMAIN features.val), Missing)
    \o MapSeq(SelectSeq(features.keys,
                  LAMBDA key : /\ key \in SchemaKeys
                               /\ \/ ~Gt(features.val[key], FEATURE_SCHEMA[key].min)
                                  \/ ~Lt(features.val[key], FEATURE_SCHEMA[key].max)),
              OutOfRange)

\* validate_features: the missing schema keys in schema order, then the
\* out-of-range keys in the order of the input
validate_features(features) ==
    MapSeq(SelectSeq(SchemaOrder, LAMBDA key : key \notin DOMAIN features.val), Missing)
    \o MapSeq(SelectSeq(features.keys,
                  LAMBDA key : /\ key \in SchemaKeys
                               /\ \/ Lt(features.val[key], FEATURE_SCHEMA[key].min)
                                  \/ Gt(features.val[key], FEATURE_SCHEMA[key].max)),
              OutOfRange)

\* ------------------------------------------- the fitted ColumnTransformer
\* the columns of a frame in their order
FrameOrder == SchemaOrder \o <<"extra", ExtraKey>>

ColumnsOf(cols) == SelectSeq(FrameOrder, LAMBDA c : c \in cols)

RECURSIVE Flatten(_)
Flatten(ss) == IF ss = <<>> THEN <<>> ELSE Head(ss) \o Flatten(Tail(ss))

\* the values of a set of integers in ascending order
RECURSIVE Ascending(_)
Ascending(S) ==
    IF S = {} THEN <<>>
    ELSE LET m == CHOOSE x \in S : \A z \in S : x <= z
         IN <<m>> \o Ascending(S \ {m})

\* the column col of the frame Xt, top to bottom
ColumnCells(Xt, col) == [i \in 1..Len(Xt.rows) |-> Xt.rows[i][col]]

\* preprocessor.fit(Xt) of the ColumnTransformer that
\* create_preprocessing_pipeline builds: per numerical feature the imputer's
\* median and the scaler's mean and variance (of the imputed column), per
\* categorical feature the imputer's most frequent value and the encoder's
\* sorted categories (of the imputed column); the other columns are the
\* remainder
fit(numerical_features, categorical_features, Xt) ==
    LET n == Len(Xt.rows)
        filled(f) == fillna(ColumnCells(Xt, f), median(ColumnCells(Xt, f)))
        sum(f) == SumSeq([i \in 1..n |-> filled(f)[i].twice])
        sumsq(f) == SumSeq([i \in 1..n |-> filled(f)[i].twice * filled(f)[i].twice])
        cat(f) == fillna(ColumnCells(Xt, f), FirstMode(ColumnCells(Xt, f)))
    IN [numerical |-> numerical_features,
        categorical |-> categorical_features,
        remainder |-> SelectSeq(ColumnsOf(Xt.columns),
                          LAMBDA c : /\ \A i \in 1..Len(numerical_features) :
                                          numerical_features[i] # c
                                     /\ \A i \in 1..Len(categorical_features) :
                                          categorical_features[i] # c),
        feature_names_in |-> Xt.columns,
        statistics |-> [f \in {numerical_features[i] : i \in 1..Len(numerical_features)}
                          |-> median(ColumnCells(Xt, f))],
        mean |-> [f \in {numerical_features[i] : i \in 1..Len(numerical_features)}
                    |-> [num |-> sum(f), den |-> n]],
        var |-> [f \in {numerical_features[i] : i \in 1..Len(numerical_features)}
                    |-> Ratio(n * sumsq(f) - sum(f) * sum(f), n * n)],
        most_frequent |-> [f \in {categorical_features[i] : i \in 1..Len(categorical_features)}
                             |-> FirstMode(ColumnCells(Xt, f))],
        categories |-> [f \in {categorical_features[i] : i \in 1..Len(categorical_features)}
                          |-> Ascending({cat(f)[i].twice : i \in 1..n})]]

\* the scaler's output for one cell: (value - mean) / sqrt(var), held as the
\* centred value num/den (in halves) beside the variance
Scaled(pre, f, c) ==
    LET v == IF isna(c) THEN pre.statistics[f] ELSE c
    IN [kind |-> "scaled",
        num |-> v.twice * pre.mean[f].den - pre.mean[f].num,
        den |-> pre.mean[f].den,
        var |-> pre.var[f]]

Indicator(b) == [kind |-> "onehot", bit |-> IF b THEN 1 ELSE 0]

\* an encoder that puts a value outside the categories in the first one
OneHotUnknownFirst(pre, f, c) ==
    LET v == IF isna(c) THEN pre.most_frequent[f] ELSE c
        known == \E i \in 1..Len(pre.categories[f]) : pre.categories[f][i] = v.twice
    IN [i \in 1..Len(pre.categories[f]) |->
          Indicator(IF known THEN pre.categories[f][i] = v.twice ELSE i = 1)]

\* the encoder's block for one cell: one indicator per category of fit
\* time, all zero for a value outside them (handle_unknown="ignore")
OneHot(pre, f, c) ==
    LET v == IF isna(c) THEN pre.most_frequent[f] ELSE c
    IN [i \in 1..Len(pre.categories[f]) |-> Indicator(pre.categories[f][i] = v.twice)]

\* an output row with the one-hot block ahead of the scaled block
RowOutCategoricalFirst(pre, row) ==
    Flatten([i \in 1..Len(pre.categorical) |->
                OneHot(pre, pre.categorical[i], row[pre.categorical[i]])])
    \o [i \in 1..Len(pre.numerical) |-> Scaled(pre, pre.numerical[i], row[pre.numerical[i]])]
    \o [i \in 1..Len(pre.remainder) |-> row[pre.remainder[i]]]

\* the output row for one input row: scaled numerical block, one-hot
\* categorical block, passthrough block
RowOut(pre, row) ==
    [i \in 1..Len(pre.numerical) |-> Scaled(pre, pre.numerical[i], row[pre.numerical[i]])]
    \o Flatten([i \in 1..Len(pre.categorical) |->
                   OneHot(pre, pre.categorical[i], row[pre.categorical[i]])])
    \o [i \in 1..Len(pre.remainder) |-> row[pre.remainder[i]]]

\* preprocessor.transform(Xt): a frame that lacks a column of fit time is
\* refused, every other frame gives one output row per input row
transform(pre, Xt) ==
    IF ~(pre.feature_names_in \subseteq Xt.columns)
    THEN [raised |-> "ValueError", X |-> <<>>]
    ELSE [raised |-> "none",
          X |-> [i \in 1..Len(Xt.rows) |-> RowOut(pre, Xt.rows[i])]]

\* ------------------------------------------------- fit and transform runs
MaxFitRows == 2     \* rows of the frame a preprocessor is fitted on
MaxNewRows == 2     \* rows of a frame a fitted preprocessor transforms

\* the feature lists of the configuration, over the columns of the tables
ConfigNumerical == <<"age">>
ConfigCategorical == <<"sex">>

\* the cells of a cleaned feature frame: no value is missing
FitCells == {Num(v) : v \in 0..MaxVal}

\* the cells of a later record: a level beyond those of fit time, or nothing
NewCells(col) ==
    CASE col = "age" -> {Num(0), Num(MaxVal + 1), NaN}
      [] col = "sex" -> {Num(v) : v \in 0..(MaxVal + 1)} \cup {NaN}
      [] OTHER -> {Num(0), NaN}

\* ------------------------------------------------ inference: the artifacts
MaxBatch == 2       \* records of a list handed to predict_batch

numerical_features == <<"age", "trestbps", "chol", "thalach", "oldpeak">>
categorical_features == <<"sex", "cp", "fbs", "restecg", "exang", "slope", "ca", "thal">>

\* a second patient of the training data (row 4 of the tests' sample data,
\* oldpeak 1.4 held as 1.5)
other_patient ==
    [k \in SchemaKeys |->
        CASE k = "age" -> Num(41)
          [] k \in {"sex", "fbs", "restecg", "exang", "ca"} -> Num(0)
          [] k = "cp" -> Num(1)
          [] k = "trestbps" -> Num(130)
          [] k = "chol" -> Num(204)
          [] k = "thalach" -> Num(172)
          [] k = "oldpeak" -> [kind |-> "num", twice |-> 3]
          [] k \in {"slope", "thal"} -> Num(2)]

\* pd.DataFrame(rows) for a list of mappings with the same keys
DataFrame(rows) ==
    [columns |-> IF rows = <<>> THEN {} ELSE DOMAIN rows[1],
     index |-> RangeIndex(Len(rows)),
     rows |-> rows]

\* the preprocessor a training run saved: fitted on the two patients
SavedPreprocessor ==
    [kind |-> "preprocessor",
     state |-> fit(numerical_features, categorical_features,
                   DataFrame(<<sample_patient, other_patient>>))]

\* the models a training run may have saved; a classifier is opaque, here
\* it scores a row by the signs of its scaled cells and its indicators
Models ==
    {[kind |-> "model", class |-> "LogisticRegression", intercept |-> 0, coef |-> 1],
     [kind |-> "model", class |-> "RandomForestClassifier", intercept |-> 7, coef |-> -1]}

Sign(x) == IF x > 0 THEN 1 ELSE IF x < 0 THEN -1 ELSE 0

Weight(cell) ==
    CASE cell.kind = "scaled" -> Sign(cell.num)
      [] cell.kind = "onehot" -> cell.bit
      [] OTHER -> 0

decision_function(model, x) ==
    model.intercept + model.coef * SumSeq([i \in 1..Len(x) |-> Weight(x[i])])

\* model.predict(X)[0]: the hard class label
model_predict(model, x) == IF decision_function(model, x) > 0 THEN 1 ELSE 0

\* model.predict_proba(X)[0]: P(class 0) and P(class 1), in tenths
predict_proba(model, x) ==
    LET d == 5 + decision_function(model, x)
        p == IF d < 0 THEN 0 ELSE IF d > 10 THEN 10 ELSE d
    IN <<10 - p, p>>

None == [kind |-> "None"]

ModelPaths == <<"models/best_model.joblib", "/app/models/best_model.joblib">>
PipelinePaths ==
    <<"models/preprocessing_pipeline.joblib", "/app/models/preprocessing_pipeline.joblib">>

AbsentFile == [kind |-> "absent"]
CorruptFile == [kind |-> "corrupt"]
JoblibFile(obj) == [kind |-> "joblib", obj |-> obj]

\* the records handed to the predictor: the sample patient, and the sample
\* patient with age or thal replaced
BatchKeys == {"age", "thal"}

BatchRecords ==
    {Record({}, <<>>, FALSE)}
    \cup UNION {{Record({k}, [q \in {k} |-> a], FALSE) : a \in Alternatives(k)} :
                 k \in BatchKeys}

\* ---------------------------------------- inference: HeartDiseasePredictor
\* _load_artifacts that loads the model before it looks for the preprocessor
load_artifactsLazy(obj, files) ==
    IF files[obj.model_path].kind = "absent"
    THEN [self |-> obj, raised |-> "FileNotFoundError", loads |-> <<>>]
    ELSE IF files[obj.model_path].kind = "corrupt"
    THEN [self |-> obj, raised |-> "UnpicklingError", loads |-> <<obj.model_path>>]
    ELSE IF files[obj.pipeline_path].kind = "absent"
    THEN [self |-> [obj EXCEPT !.model = files[obj.model_path].obj],
          raised |-> "FileNotFoundError", loads |-> <<obj.model_path>>]
    ELSE IF files[obj.pipeline_path].kind = "corrupt"
    THEN [self |-> [obj EXCEPT !.model = files[obj.model_path].obj],
          raised |-> "UnpicklingError",
          loads |-> <<obj.model_path, obj.pipeline_path>>]
    ELSE [self |-> [obj EXCEPT !.model = files[obj.model_path].obj,
                               !.preprocessor = files[obj.pipeline_path].obj],
          raised |-> "none",
          loads |-> <<obj.model_path, obj.pipeline_path>>]

\* _load_artifacts: both existence checks, then both joblib.load calls; the
\* object after the call, what was raised, and the files joblib.load opened
load_artifacts(obj, files) ==
    IF files[obj.model_path].kind = "absent"
    THEN [self |-> obj, raised |-> "FileNotFoundError", loads |-> <<>>]
    ELSE IF files[obj.pipeline_path].kind = "absent"
    THEN [self |-> obj, raised |-> "FileNotFoundError", loads |-> <<>>]
    ELSE IF files[obj.model_path].kind = "corrupt"
    THEN [self |-> obj, raised |-> "UnpicklingError", loads |-> <<obj.model_path>>]
    ELSE IF files[obj.pipeline_path].kind = "corrupt"
    THEN [self |-> [obj EXCEPT !.model = files[obj.model_path].obj],
          raised |-> "UnpicklingError",
          loads |-> <<obj.model_path, obj.pipeline_path>>]
    ELSE [self |-> [obj EXCEPT !.model = files[obj.model_path].obj,
                               !.preprocessor = files[obj.pipeline_path].obj],
          raised |-> "none",
          loads |-> <<obj.model_path, obj.pipeline_path>>]

\* __init__: the paths are stored, both artifacts start as None, then
\* _load_artifacts runs
HeartDiseasePredictor(model_path, pipeline_path, files) ==
    load_artifacts([model_path |-> model_path, pipeline_path |-> pipeline_path,
                    model |-> None, preprocessor |-> None], files)

NoCtor == [raised |-> "none", loads |-> <<>>]
NoOutcome == [raised |-> "none", ret |-> None, calls |-> <<>>]

Call(op, features) == [op |-> op, features |-> features]

Max2(p) == IF p[1] >= p[2] THEN p[1] ELSE p[2]

\* a label that is "Heart Disease" for every prediction
prediction_labelAlways(prediction) == "Heart Disease"

prediction_label(prediction) ==
    IF prediction = 1 THEN "Heart Disease" ELSE "No Heart Disease"

\* predict that calls fit_transform where predict calls transform: the
\* preprocessor is fitted anew on the record
predictRefit(obj, features) ==
    LET state == fit(numerical_features, categorical_features,
                     DataFrame(<<features.val>>))
        x == transform(state, DataFrame(<<features.val>>)).X[1]
        prediction == model_predict(obj.model, x)
        probability == predict_proba(obj.model, x)
    IN [self |-> [obj EXCEPT !.preprocessor.state = state],
        raised |-> "none",
        ret |-> [prediction |-> prediction,
                 prediction_label |-> IF prediction = 1 THEN "Heart Disease"
                                      ELSE "No Heart Disease",
                 probability_no_disease |-> probability[1],
                 probability_disease |-> probability[2],
                 confidence |-> Max2(probability)],
        calls |-> <<Call("preprocessor.fit_transform", features),
                    Call("model.predict", features),
                    Call("model.predict_proba", features)>>]

\* HeartDiseasePredictor.predict: the object after the call, what was
\* raised, what was returned, and the calls made on the two artifacts
predict(obj, features) ==
    LET t == transform(obj.preprocessor.state, DataFrame(<<features.val>>))
    IN IF t.raised # "none"
       THEN [self |-> obj, raised |-> t.raised, ret |-> None,
             calls |-> <<Call("preprocessor.transform", features)>>]
       ELSE LET prediction == model_predict(obj.model, t.X[1])
                probability == predict_proba(obj.model, t.X[1])
            IN [self |-> obj,
                raised |-> "none",
                ret |-> [prediction |-> prediction,
                         prediction_label |-> prediction_label(prediction),
                         probability_no_disease |-> probability[1],
                         probability_disease |-> probability[2],
                         confidence |-> Max2(probability)],
                calls |-> <<Call("preprocessor.transform", features),
                            Call("model.predict", features),
                            Call("model.predict_proba", features)>>]

RECURSIVE predict_batch(_, _)
\* predict_batch: predict on each record in turn; the first record predict
\* raises on ends the call
predict_batch(obj, features_list) ==
    IF features_list = <<>>
    THEN [self |-> obj, raised |-> "none", ret |-> <<>>, calls |-> <<>>]
    ELSE LET h == predict(obj, Head(features_list))
         IN IF h.raised # "none" THEN h
            ELSE LET r == predict_batch(h.self, Tail(features_list))
                 IN IF r.raised # "none"
                    THEN [r EXCEPT !.calls = h.calls \o r.calls]
                    ELSE [r EXCEPT !.ret = <<h.ret>> \o r.ret,
                                   !.calls = h.calls \o r.calls]

\* --------------------------------------------------- the serving layer
MaxRequests == 2    \* requests the serving process has in flight

\* the preprocessor of a training run whose data had one more column, which
\* the remainder passes through
WidePreprocessor ==
    [kind |-> "preprocessor",
     state |-> fit(numerical_features, categorical_features,
                   DataFrame(<<[k \in SchemaKeys \cup {"extra"} |->
                                  IF k = "extra" THEN Num(0) ELSE sample_patient[k]],
                               [k \in SchemaKeys \cup {"extra"} |->
                                  IF k = "extra" THEN Num(1) ELSE other_patient[k]]>>))]

PatientFieldsAgeTo150 ==
    [k \in SchemaKeys |->
        CASE k = "age" -> [type |-> "int", ge |-> 0, le |-> 150]
          [] k \in {"sex", "fbs", "exang"} -> [type |-> "int", ge |-> 0, le |-> 1]
          [] k \in {"cp", "thal"} -> [type |-> "int", ge |-> 0, le |-> 3]
          [] k \in {"trestbps", "thalach"} -> [type |-> "int", ge |-> 50, le |-> 250]
          [] k = "chol" -> [type |-> "int", ge |-> 100, le |-> 600]
          [] k \in {"restecg", "slope"} -> [type |-> "int", ge |-> 0, le |-> 2]
          [] k = "oldpeak" -> [type |-> "float", ge |-> 0, le |-> 10]
          [] k = "ca" -> [type |-> "int", ge |-> 0, le |-> 4]]

\* the Field constraints of PatientFeatures
PatientFields ==
    [k \in SchemaKeys |->
        CASE k = "age" -> [type |-> "int", ge |-> 0, le |-> 120]
          [] k \in {"sex", "fbs", "exang"} -> [type |-> "int", ge |-> 0, le |-> 1]
          [] k \in {"cp", "thal"} -> [type |-> "int", ge |-> 0, le |-> 3]
          [] k \in {"trestbps", "thalach"} -> [type |-> "int", ge |-> 50, le |-> 250]
          [] k = "chol" -> [type |-> "int", ge |-> 100, le |-> 600]
          [] k \in {"restecg", "slope"} -> [type |-> "int", ge |-> 0, le |-> 2]
          [] k = "oldpeak" -> [type |-> "float", ge |-> 0, le |-> 10]
          [] k = "ca" -> [type |-> "int", ge |-> 0, le |-> 4]]

\* the bodies a client posts to /predict: those of BatchRecords, and the
\* sample patient with a string that is no number in age or thal
ApiBodies ==
    BatchRecords
    \cup {Record({k}, [q \in {k} |-> Unparseable], FALSE) : k \in BatchKeys}

\* PatientFeatures without the ge and le constraints
PatientFeaturesUnbounded(body) ==
    LET ok(k) == /\ k \in DOMAIN body.val
                 /\ body.val[k].kind = "num"
                 /\ PatientFields[k].type = "int" => body.val[k].twice % 2 = 0
    IN IF \A k \in SchemaKeys : ok(k)
       THEN [ok |-> TRUE,
             features |-> Dict(SchemaOrder, [k \in SchemaKeys |-> body.val[k]])]
       ELSE [ok |-> FALSE, features |-> Dict(<<>>, <<>>)]

\* PatientFeatures(**body) and model_dump(): every field is required, is a
\* number (a whole one for an int field) and lies within ge..le; the dump
\* holds the 13 fields in declaration order
PatientFeatures(body) ==
    LET ok(k) == /\ k \in DOMAIN body.val
                 /\ body.val[k].kind = "num"
                 /\ PatientFields[k].type = "int" => body.val[k].twice % 2 = 0
                 /\ body.val[k].twice >= 2 * PatientFields[k].ge
                 /\ body.val[k].twice <= 2 * PatientFields[k].le
    IN IF \A k \in SchemaKeys : ok(k)
       THEN [ok |-> TRUE,
             features |-> Dict(SchemaOrder, [k \in SchemaKeys |-> body.val[k]])]
       ELSE [ok |-> FALSE, features |-> Dict(<<>>, <<>>)]

Exists(files, path) == files[path].kind # "absent"

RECURSIVE startup_from(_, _)
\* the loop of startup_event from the i-th pair of paths on: the first pair
\* whose two files exist is handed to the constructor, and what the
\* constructor raises is caught and logged
startup_from(files, i) ==
    IF i > Len(ModelPaths)
    THEN [predictor |-> None, self |-> None, ctor |-> NoCtor,
          logged |-> "Model not found"]
    ELSE IF Exists(files, ModelPaths[i]) /\ Exists(files, PipelinePaths[i])
    THEN LET r == HeartDiseasePredictor(ModelPaths[i], PipelinePaths[i], files)
         IN [predictor |-> IF r.raised = "none" THEN r.self ELSE None,
             self |-> r.self,
             ctor |-> [raised |-> r.raised, loads |-> r.loads],
             logged |-> IF r.raised = "none" THEN "Model loaded successfully"
                        ELSE "Failed to load model"]
    ELSE startup_from(files, i + 1)

startup_event(files) == startup_from(files, 1)

\* health_check that reports what the files look like now
HealthResponseOptimistic(p) ==
    [status_code |-> 200,
     body |-> [status |-> "healthy", model_loaded |-> TRUE, timestamp |-> "now"]]

\* health_check
HealthResponse(p) ==
    [status_code |-> 200,
     body |-> [status |-> IF p # None THEN "healthy" ELSE "degraded",
               model_loaded |-> p # None,
               timestamp |-> "now"]]

HTTPException(status_code, detail) ==
    [status_code |-> status_code, body |-> [detail |-> detail]]

PredictionResponse(result) ==
    [status_code |-> 200,
     body |-> [prediction |-> result.prediction,
               prediction_label |-> result.prediction_label,
               probability_no_disease |-> result.probability_no_disease,
               probability_disease |-> result.probability_disease,
               confidence |-> result.confidence,
               timestamp |-> "now"]]

NoResponse == [status_code |-> 0, body |-> <<>>]

\* a free slot of the serving process
NoRequest ==
    [endpoint |-> "none", body |-> Dict(<<>>, <<>>), pc |-> "free",
     features |-> Dict(<<>>, <<>>), result |-> NoOutcome, response |-> NoResponse]

\* ------------------------------------------------------------------ state
EmptyTable == [columns |-> {}, index |-> <<>>, rows |-> <<>>]

VARIABLES
    df,         \* the table handed to clean_data
    imputed,    \* clean_data's frame before its final dropna
    cleaned,    \* the table clean_data returned
    clean_pc,   \* "idle" before the call, "done" after it
    config,     \* the configuration of the training run
    raw_file,   \* the data file: whether it exists, and its table
    pc,         \* where train_all_models stands
    cur,        \* the position of the loop in models_to_train
    train_df,   \* the frame load_data returned
    X,          \* the feature frame prepare_data built
    y,          \* the target vector prepare_data built
    preprocessor,   \* what the fitted preprocessor learned
    train_idx,  \* the rows of X in the train partition
    test_idx,   \* the rows of X in the test partition
    results,    \* the results dict of train_all_models
    best_model_name,
    registry,   \* the tracking collaborator: versions per registered model, champion
    log,        \* the tracking calls whose failure was caught and printed
    error,      \* the exception that ended the run
    disk,       \* the three files under models/
    writes      \* the writes to models/ made by this run

cleanVars == <<df, imputed, cleaned, clean_pc>>
trainVars ==
    <<config, raw_file, pc, cur, train_df, X, y, preprocessor, train_idx, test_idx,
      results, best_model_name, registry, log, error, disk, writes>>
VARIABLES
    record,     \* the mapping handed to validate_features
    errors,     \* the list validate_features returned
    validate_pc \* "idle" before the call, "done" after it

validateVars == <<record, errors, validate_pc>>

\* no validate_features call in sight
ValidateIdle ==
    /\ record = Dict(<<>>, <<>>)
    /\ errors = <<>>
    /\ validate_pc = "off"

VARIABLES
    files,      \* the artifact files the serving side reads
    self,       \* the HeartDiseasePredictor object __init__ worked on
    predictor,  \* the reference to the constructed predictor, or None
    ctor,       \* what the constructor raised and which files it loaded
    features_list,  \* the records handed to predict or predict_batch
    call,       \* the method called: "predict" or "predict_batch"
    outcome,    \* what the call raised, returned and invoked
    run_pc      \* where the caller of the predictor stands

predictorVars == <<files, self, predictor, ctor, features_list, call, outcome, run_pc>>

ArtifactFiles == {ModelPaths[i] : i \in 1..2} \cup {PipelinePaths[i] : i \in 1..2}


\* no predictor in sight
PredictorIdle ==
    /\ files = [p \in ArtifactFiles |-> AbsentFile]
    /\ self = None
    /\ predictor = None
    /\ ctor = NoCtor
    /\ features_list = <<>>
    /\ call = "none"
    /\ outcome = NoOutcome
    /\ run_pc = "off"

VARIABLES
    app_pc,     \* the serving process: "boot" before startup_event, then "serving"
    app_log,    \* what startup_event logged
    requests    \* the requests in flight, per slot

apiVars == <<app_pc, app_log, requests>>

\* no serving process in sight
ApiIdle ==
    /\ app_pc = "off"
    /\ app_log = "none"
    /\ requests = [r \in 1..MaxRequests |-> NoRequest]

VARIABLES
    fit_X,      \* the feature frame a preprocessor is fitted on
    fitted,     \* what the preprocessor learned
    fit_out,    \* what fit_transform returned
    new_X,      \* a later frame with the same columns
    new_out,    \* what transform returned for it
    transform_pc

transformVars == <<fit_X, fitted, fit_out, new_X, new_out, transform_pc>>

NoOutput == [raised |-> "none", X |-> <<>>]

\* no preprocessor run in sight
TransformIdle ==
    /\ fit_X = EmptyTable
    /\ fitted = NotFitted
    /\ fit_out = NoOutput
    /\ new_X = EmptyTable
    /\ new_out = NoOutput
    /\ transform_pc = "off"

VARIABLES
    split_X,    \* the feature rows handed to split_data
    split_y,    \* the target vector handed to split_data
    RandomState,    \* per seed, the stream numpy's RandomState(seed) yields
    np_random,  \* the position of numpy's global random stream
    split_calls,    \* the split_data calls made so far, with what they returned
    split_pc

splitVars == <<split_X, split_y, RandomState, np_random, split_calls, split_pc>>

\* no split_data call in sight
SplitIdle ==
    /\ split_X = <<>>
    /\ split_y = <<>>
    /\ RandomState = <<>>
    /\ np_random = 0
    /\ split_calls = <<>>
    /\ split_pc = "off"

VARIABLES
    eval_train, \* the train partition handed to evaluate_model
    eval_test,  \* the test partition handed to evaluate_model
    eval_cv,    \* cv_folds
    estimator,  \* the fitted model, as the calls so far left it
    eval_calls, \* the evaluate_model calls made so far, with what they returned
    eval_pc

evalVars == <<eval_train, eval_test, eval_cv, estimator, eval_calls, eval_pc>>

\* no evaluate_model call in sight
EvalIdle ==
    /\ eval_train = <<>>
    /\ eval_test = <<>>
    /\ eval_cv = 0
    /\ estimator = None
    /\ eval_calls = <<>>
    /\ eval_pc = "off"

VARIABLES
    schema_body,    \* a mapping put to both schemas
    parsed,         \* what PatientFeatures made of it
    dump_errors,    \* what validate_features lists for the dump of an accepted body
    body_errors,    \* what validate_features lists for the mapping itself
    schema_pc

schemaVars == <<schema_body, parsed, dump_errors, body_errors, schema_pc>>

NotParsed == [ok |-> FALSE, features |-> Dict(<<>>, <<>>)]

\* no schema comparison in sight
SchemaIdle ==
    /\ schema_body = Dict(<<>>, <<>>)
    /\ parsed = NotParsed
    /\ dump_errors = <<>>
    /\ body_errors = <<>>
    /\ schema_pc = "off"

VARIABLES
    model_versions, \* the model registry: per registered model, the stage of each version
    script_call,    \* the call of the script made last, with the registry it met
    script_pc

scriptVars == <<model_versions, script_call, script_pc>>

NoScriptCall == [op |-> "none"]

\* no registry script in sight
ScriptIdle ==
    /\ model_versions = <<>>
    /\ script_call = NoScriptCall
    /\ script_pc = "off"

toolVars == <<splitVars, evalVars, schemaVars, scriptVars>>

ToolIdle == SplitIdle /\ EvalIdle /\ SchemaIdle /\ ScriptIdle

serveVars == <<validateVars, predictorVars, apiVars, transformVars>>

ServeIdle == ValidateIdle /\ PredictorIdle /\ ApiIdle /\ TransformIdle

vars == <<cleanVars, trainVars, serveVars, toolVars>>


MissingFile == [exists |-> FALSE, table |-> EmptyTable]

\* no training run in sight
TrainIdle ==
    /\ config = Config(<<>>, [num |-> 1, den |-> 2])
    /\ raw_file = MissingFile
    /\ pc = "off"
    /\ cur = 0
    /\ train_df = EmptyTable
    /\ X = EmptyTable
    /\ y = <<>>
    /\ preprocessor = NotFitted
    /\ train_idx = {}
    /\ test_idx = {}
    /\ results = EmptyDict
    /\ best_model_name = "none"
    /\ registry = [versions |-> [m \in ModelIds |-> 0], champion |-> <<>>, tags |-> <<>>]
    /\ log = {}
    /\ error = NoError
    /\ disk = NoFiles
    /\ writes = {}

\* no clean_data call in sight
CleanIdle ==
    /\ df = EmptyTable
    /\ imputed = EmptyTable
    /\ cleaned = EmptyTable
    /\ clean_pc = "off"

\* the raw table handed to clean_data: up to MaxCols of the columns, up to
\* MaxRows rows
InitClean ==
    /\ \E cols \in SUBSET AllCols : \E n \in 0..MaxRows :
         /\ Cardinality(cols) <= MaxCols
         /\ \E rs \in [1..n -> RawRows(cols)] :
              df = [columns |-> cols, index |-> RangeIndex(n), rows |-> rs]
    /\ imputed = EmptyTable
    /\ cleaned = EmptyTable
    /\ clean_pc = "idle"
    /\ TrainIdle
    /\ ToolIdle
    /\ ServeIdle

\* one call of clean_data
CleanData ==
    /\ clean_pc = "idle"
    /\ imputed' = Imputed(df)
    /\ cleaned' = clean_data(df)
    /\ clean_pc' = "done"
    /\ UNCHANGED <<toolVars, df, trainVars, serveVars>>

NextClean == CleanData

SpecClean == InitClean /\ [][NextClean]_vars

\* ------------------------------------------------- training run: steps
models_to_train == config.models_to_train

Configs ==
    {Config(mtt, ts) :
        mtt \in UNION {[1..k -> ModelIds] : k \in 0..MaxModels}, ts \in TestSizes}

\* a data file of n rows: k rows of target 0, then rows of target 1
FileOf(n, k) ==
    [exists |-> TRUE,
     table |-> [columns |-> TrainCols, index |-> RangeIndex(n),
                rows |-> [i \in 1..n |->
                    [target |-> Num(IF i <= k THEN 0 ELSE 1),
                     age |-> Num(i % (MaxVal + 1)), sex |-> Num(0)]]]]

\* the run ends with the exception e
Raise(e) ==
    /\ pc' = "failed"
    /\ error' = e

\* a training run about to start: a configuration, a data file of up to
\* MaxSamples rows or none, and whatever a previous run left in models/
Init ==
    /\ CleanIdle
    /\ ToolIdle
    /\ ServeIdle
    /\ config \in Configs
    /\ \/ raw_file = MissingFile
       \/ \E n \in 0..MaxSamples : \E k \in 0..n : raw_file = FileOf(n, k)
    /\ pc = "setup"
    /\ cur = 0
    /\ train_df = EmptyTable
    /\ X = EmptyTable
    /\ y = <<>>
    /\ preprocessor = NotFitted
    /\ train_idx = {}
    /\ test_idx = {}
    /\ results = EmptyDict
    /\ best_model_name = "none"
    /\ registry = [versions |-> [m \in ModelIds |-> 0], champion |-> <<>>, tags |-> <<>>]
    /\ log = {}
    /\ error = NoError
    /\ disk \in {NoFiles, OldFiles}
    /\ writes = {}

\* train_all_models, lines 351-375: the experiment is looked up inside a
\* try, and set outside it
SetupTracking ==
    /\ pc = "setup"
    /\ \E failing \in SUBSET {"get_experiment_by_name", "set_experiment"} :
         /\ log' = log \cup (failing \cap {"get_experiment_by_name"})
         /\ IF "set_experiment" \in failing
            THEN Raise([type |-> "MlflowException", call |-> "set_experiment"])
            ELSE pc' = "load" /\ error' = error
    /\ UNCHANGED <<toolVars, serveVars, cleanVars, config, raw_file, cur, train_df, X, y, preprocessor,
                   train_idx, test_idx, results, best_model_name, registry, disk, writes>>

\* load_data
LoadData ==
    /\ pc = "load"
    /\ IF raw_file.exists
       THEN /\ train_df' = raw_file.table
            /\ pc' = "prepare"
            /\ error' = error
       ELSE /\ Raise([type |-> "FileNotFoundError", call |-> "read_csv"])
            /\ train_df' = train_df
    /\ UNCHANGED <<toolVars, serveVars, cleanVars, config, raw_file, cur, X, y, preprocessor, train_idx,
                   test_idx, results, best_model_name, registry, log, disk, writes>>

\* prepare_data: clean, separate the target, fit the preprocessor on X
PrepareData ==
    /\ pc = "prepare"
    /\ LET df_clean == clean_data(train_df)
           Xt == FeaturesOf(df_clean)
       IN /\ X' = Xt
          /\ y' = TargetOf(df_clean)
          /\ IF Len(Xt.rows) = 0
             THEN /\ Raise([type |-> "ValueError", call |-> "fit_transform"])
                  /\ preprocessor' = preprocessor
             ELSE /\ preprocessor' = fit_transform(Xt)
                  /\ pc' = "split"
                  /\ error' = error
    /\ UNCHANGED <<toolVars, serveVars, cleanVars, config, raw_file, cur, train_df, train_idx, test_idx,
                   results, best_model_name, registry, log, disk, writes>>

\* split_data: a stratified split, or ValueError
SplitData ==
    /\ pc = "split"
    /\ IF SplitFails(y, config.test_size)
       THEN /\ Raise([type |-> "ValueError", call |-> "train_test_split"])
            /\ UNCHANGED <<train_idx, test_idx, cur>>
       ELSE /\ \E S \in TrainPartitions(y, config.test_size) :
                 /\ train_idx' = S
                 /\ test_idx' = (1..Len(y)) \ S
            /\ pc' = "train"
            /\ cur' = 1
            /\ error' = error
    /\ UNCHANGED <<toolVars, serveVars, cleanVars, config, raw_file, train_df, X, y, preprocessor,
                   results, best_model_name, registry, log, disk, writes>>

\* the classes among the rows at idx
ClassesAt(idx) == {y[i] : i \in idx}

\* the calls of train_and_log_model that sit inside a try
GuardedTrainCalls == {"log_metric", "log_metrics", "get_run"}

\* train_and_log_model for the candidate at cur, and the assignment to
\* results. Of the calls to the tracking collaborator, raised is the first
\* unguarded one that fails (NoCall: none does) and caught are the guarded
\* ones that fail.
TrainAndLogModel ==
    /\ pc = "train"
    /\ cur <= Len(models_to_train)
    /\ LET model_name == models_to_train[cur]
           made == get_model(model_name, config.model)
       IN \E raised \in (TrainCalls \ GuardedTrainCalls) \cup {"NoCall"} :
          \E caught \in SUBSET GuardedTrainCalls : \E auc \in 1..MaxAuc :
            IF raised = "start_run"
            THEN /\ Raise([type |-> "MlflowException", call |-> "start_run"])
                 /\ UNCHANGED <<cur, results, registry, log>>
            ELSE IF ~made.ok
            THEN /\ Raise([type |-> "ValueError", call |-> "get_model"])
                 /\ UNCHANGED <<cur, results, registry, log>>
            ELSE IF raised = "log_params"
            THEN /\ Raise([type |-> "MlflowException", call |-> "log_params"])
                 /\ UNCHANGED <<cur, results, registry, log>>
            ELSE IF Cardinality(ClassesAt(train_idx)) < 2
                    \/ Cardinality(ClassesAt(test_idx)) < 2
            THEN /\ Raise([type |-> "ValueError", call |-> "fit_evaluate"])
                 /\ UNCHANGED <<cur, results, registry, log>>
            ELSE IF raised \in {"log_figure", "log_model"}
            THEN /\ Raise([type |-> "MlflowException", call |-> raised])
                 /\ log' = log \cup (caught \ {"get_run"})
                 /\ UNCHANGED <<cur, results, registry>>
            ELSE /\ registry' = [registry EXCEPT !.versions[model_name] = @ + 1]
                 /\ log' = log \cup caught
                 /\ results' = DictSet(results, model_name,
                        [model |-> [class |-> made.class, params |-> made.params,
                                    fitted_at |-> cur],
                         metrics |-> [roc_auc |-> auc]])
                 /\ cur' = cur + 1
                 /\ pc' = pc
                 /\ error' = error
    /\ UNCHANGED <<toolVars, serveVars, cleanVars, config, raw_file, train_df, X, y, preprocessor,
                   train_idx, test_idx, best_model_name, disk, writes>>

roc_auc_of == [k \in DOMAIN results.val |-> results.val[k].metrics.roc_auc]

\* best_model_name = max(results, key=roc_auc); max of nothing raises
SelectBest ==
    /\ pc = "train"
    /\ cur > Len(models_to_train)
    /\ IF results.keys = <<>>
       THEN /\ Raise([type |-> "ValueError", call |-> "max"])
            /\ best_model_name' = best_model_name
       ELSE /\ best_model_name' = PyMax(results.keys, roc_auc_of)
            /\ pc' = "promote"
            /\ error' = error
    /\ UNCHANGED <<toolVars, serveVars, cleanVars, config, raw_file, cur, train_df, X, y, preprocessor,
                   train_idx, test_idx, results, registry, log, disk, writes>>

\* the tagging and alias block, every call of it inside a try; visible says
\* whether the registry already lists the version just registered
PromoteBest ==
    /\ pc = "promote"
    /\ \E failing \in SUBSET PromoteCalls : \E visible \in BOOLEAN :
         LET version == registry.versions[best_model_name]
         IN IF "search_model_versions" \in failing
            THEN /\ log' = log \cup {"search_model_versions"}
                 /\ registry' = registry
            ELSE IF ~visible
            THEN UNCHANGED <<log, registry>>
            ELSE /\ log' = log \cup (failing \ {"search_model_versions"})
                 /\ registry' =
                      [registry EXCEPT
                         !.tags = IF "set_model_version_tag" \in failing THEN @
                                  ELSE <<best_model_name, version>>,
                         !.champion = IF "set_registered_model_alias" \in failing THEN @
                                      ELSE <<best_model_name, version>>]
    /\ pc' = "save"
    /\ UNCHANGED <<toolVars, serveVars, cleanVars, config, raw_file, cur, train_df, X, y, preprocessor,
                   train_idx, test_idx, results, best_model_name, error, disk, writes>>

\* lines 500-515: the model, the preprocessor and the model info are written
\* one after the other; written is the number of writes that succeed before
\* one raises (3: none raises), and a write that raises leaves its file as
\* it was
SaveArtifacts ==
    /\ pc = "save"
    /\ \E written \in 0..3 :
         LET best_model == results.val[best_model_name].model
             best_metrics == results.val[best_model_name].metrics
             info == model_info(best_model_name, best_metrics, config)
             obj == [f \in ArtifactPaths |->
                        IF f = "best_model.joblib"
                        THEN [kind |-> "model", content |-> best_model]
                        ELSE IF f = "preprocessing_pipeline.joblib"
                        THEN [kind |-> "preprocessor", content |-> preprocessor]
                        ELSE [kind |-> "model_info", content |-> info]]
             d1 == save_(disk, ArtifactOrder[1], obj[ArtifactOrder[1]])
             d2 == save_(d1, ArtifactOrder[2], obj[ArtifactOrder[2]])
             d3 == save_(d2, ArtifactOrder[3], obj[ArtifactOrder[3]])
         IN /\ disk' = IF written = 0 THEN disk
                       ELSE IF written = 1 THEN d1
                       ELSE IF written = 2 THEN d2 ELSE d3
            /\ writes' = writes \cup
                  {[path |-> ArtifactOrder[k], content |-> obj[ArtifactOrder[k]].content] :
                        k \in 1..written}
            /\ IF written = 3
               THEN pc' = "done" /\ error' = error
               ELSE Raise([type |-> "OSError", call |-> ArtifactOrder[written + 1]])
    /\ UNCHANGED <<toolVars, serveVars, cleanVars, config, raw_file, cur, train_df, X, y, preprocessor,
                   train_idx, test_idx, results, best_model_name, registry, log>>

Next ==
    \/ SetupTracking
    \/ LoadData
    \/ PrepareData
    \/ SplitData
    \/ TrainAndLogModel
    \/ SelectBest
    \/ PromoteBest
    \/ SaveArtifacts

\* one run of train_all_models
Spec == Init /\ [][Next]_vars

\* the loading, preparing and splitting of a run (also the module's own
\* __main__), on every data file of up to MaxSamples rows
InitPrepare ==
    /\ CleanIdle
    /\ ToolIdle
    /\ ServeIdle
    /\ \E ts \in TestSizes :
         config = Config(<<"logistic_regression", "random_forest">>, ts)
    /\ \/ raw_file = MissingFile
       \/ \E n \in 0..MaxSamples : \E rs \in [1..n -> SampleRows] :
            raw_file = [exists |-> TRUE,
                        table |-> [columns |-> TrainCols, index |-> RangeIndex(n),
                                   rows |-> rs]]
    /\ pc = "load"
    /\ cur = 0
    /\ train_df = EmptyTable
    /\ X = EmptyTable
    /\ y = <<>>
    /\ preprocessor = NotFitted
    /\ train_idx = {}
    /\ test_idx = {}
    /\ results = EmptyDict
    /\ best_model_name = "none"
    /\ registry = [versions |-> [m \in ModelIds |-> 0], champion |-> <<>>, tags |-> <<>>]
    /\ log = {}
    /\ error = NoError
    /\ disk = NoFiles
    /\ writes = {}

NextPrepare ==
    \/ LoadData
    \/ PrepareData
    \/ SplitData

SpecPrepare == InitPrepare /\ [][NextPrepare]_vars

\* ----------------------------------------------- validate_features: steps
\* the mapping handed to validate_features: the sample patient with up to
\* MaxDefects fields replaced, with or without a key outside the schema
InitValidate ==
    /\ CleanIdle
    /\ ToolIdle
    /\ TrainIdle
    /\ \E ks \in SUBSET SchemaKeys : \E extra \in BOOLEAN :
         /\ Cardinality(ks) <= MaxDefects
         /\ \E alt \in [ks -> UNION {Alternatives(k) : k \in SchemaKeys}] :
              /\ \A k \in ks : alt[k] \in Alternatives(k)
              /\ record = Record(ks, alt, extra)
    /\ errors = <<>>
    /\ validate_pc = "idle"
    /\ PredictorIdle
    /\ ApiIdle
    /\ TransformIdle

\* one call of validate_features
ValidateFeatures ==
    /\ validate_pc = "idle"
    /\ errors' = validate_features(record)
    /\ validate_pc' = "done"
    /\ UNCHANGED <<toolVars, record, cleanVars, trainVars, predictorVars, apiVars, transformVars>>

NextValidate == ValidateFeatures

SpecValidate == InitValidate /\ [][NextValidate]_vars

\* ------------------------------------------- HeartDiseasePredictor: steps
FileOfKind(kind, obj) ==
    CASE kind = "absent" -> AbsentFile
      [] kind = "corrupt" -> CorruptFile
      [] OTHER -> JoblibFile(obj)

\* a caller of the predictor (predict.py's __main__, the serving layer, a
\* test): the two files under models/ are each absent, corrupt or as saved
\* by a training run, and the caller holds up to MaxBatch records
InitPredictor ==
    /\ CleanIdle
    /\ ToolIdle
    /\ TrainIdle
    /\ ValidateIdle
    /\ ApiIdle
    /\ TransformIdle
    /\ \E m \in Models : \E mk, pk \in {"absent", "corrupt", "joblib"} :
         files = [p \in ArtifactFiles |->
                    IF p = ModelPaths[1] THEN FileOfKind(mk, m)
                    ELSE IF p = PipelinePaths[1] THEN FileOfKind(pk, SavedPreprocessor)
                    ELSE AbsentFile]
    /\ self = None
    /\ predictor = None
    /\ ctor = NoCtor
    /\ \E n \in 1..MaxBatch : \E fl \in [1..n -> BatchRecords] : features_list = fl
    /\ call = "none"
    /\ outcome = NoOutcome
    /\ run_pc = "start"

\* predictor = HeartDiseasePredictor()
Construct ==
    /\ run_pc = "start"
    /\ LET r == HeartDiseasePredictor(ModelPaths[1], PipelinePaths[1], files)
       IN /\ self' = r.self
          /\ ctor' = [raised |-> r.raised, loads |-> r.loads]
          /\ predictor' = IF r.raised = "none" THEN r.self ELSE None
          /\ run_pc' = IF r.raised = "none" THEN "ready" ELSE "failed"
    /\ UNCHANGED <<toolVars, files, features_list, call, outcome, cleanVars, trainVars, validateVars, apiVars, transformVars>>

\* predictor.predict(features)
Predict ==
    /\ run_pc = "ready"
    /\ Len(features_list) = 1
    /\ LET r == predict(predictor, features_list[1])
       IN /\ predictor' = r.self
          /\ outcome' = [raised |-> r.raised, ret |-> r.ret, calls |-> r.calls]
    /\ call' = "predict"
    /\ run_pc' = "done"
    /\ UNCHANGED <<toolVars, files, self, ctor, features_list, cleanVars, trainVars, validateVars, apiVars, transformVars>>

\* predictor.predict_batch(features_list)
PredictBatch ==
    /\ run_pc = "ready"
    /\ LET r == predict_batch(predictor, features_list)
       IN /\ predictor' = r.self
          /\ outcome' = [raised |-> r.raised, ret |-> r.ret, calls |-> r.calls]
    /\ call' = "predict_batch"
    /\ run_pc' = "done"
    /\ UNCHANGED <<toolVars, files, self, ctor, features_list, cleanVars, trainVars, validateVars, apiVars, transformVars>>

NextPredictor ==
    \/ Construct
    \/ Predict
    \/ PredictBatch

SpecPredictor == InitPredictor /\ [][NextPredictor]_vars

\* ------------------------------------------------ the serving layer: steps
\* the serving process before startup: the files of the first pair of paths
\* are each absent, corrupt or as saved, those of the second pair are both
\* absent, both as saved, or only the model is there
InitApi ==
    /\ CleanIdle
    /\ ToolIdle
    /\ TrainIdle
    /\ ValidateIdle
    /\ TransformIdle
    /\ \E m \in Models : \E pre \in {SavedPreprocessor, WidePreprocessor} :
       \E mk, pk \in {"absent", "corrupt", "joblib"} :
       \E second \in {<<"absent", "absent">>, <<"joblib", "joblib">>, <<"joblib", "absent">>} :
         files = [p \in ArtifactFiles |->
                    CASE p = ModelPaths[1] -> FileOfKind(mk, m)
                      [] p = PipelinePaths[1] -> FileOfKind(pk, pre)
                      [] p = ModelPaths[2] -> FileOfKind(second[1], m)
                      [] OTHER -> FileOfKind(second[2], pre)]
    /\ self = None
    /\ predictor = None
    /\ ctor = NoCtor
    /\ features_list = <<>>
    /\ call = "none"
    /\ outcome = NoOutcome
    /\ run_pc = "off"
    /\ app_pc = "boot"
    /\ app_log = "none"
    /\ requests = [r \in 1..MaxRequests |-> NoRequest]

apiRest == <<toolVars, cleanVars, trainVars, validateVars, transformVars, files, features_list, call, outcome, run_pc>>

\* startup_event
Startup ==
    /\ app_pc = "boot"
    /\ LET r == startup_event(files)
       IN /\ predictor' = r.predictor
          /\ self' = r.self
          /\ ctor' = r.ctor
          /\ app_log' = r.logged
    /\ app_pc' = "serving"
    /\ UNCHANGED <<requests, apiRest>>

\* GET /health arrives and is routed to health_check
ReceiveHealth(r) ==
    /\ app_pc = "serving"
    /\ requests[r].pc = "free"
    /\ requests' = [requests EXCEPT ![r] = [NoRequest EXCEPT !.endpoint = "/health",
                                                            !.pc = "routed"]]
    /\ UNCHANGED <<app_pc, app_log, predictor, self, ctor, apiRest>>

\* health_check
HealthCheck(r) ==
    /\ requests[r].pc = "routed"
    /\ requests[r].endpoint = "/health"
    /\ requests' = [requests EXCEPT ![r].response = HealthResponse(predictor),
                                    ![r].pc = "done"]
    /\ UNCHANGED <<app_pc, app_log, predictor, self, ctor, apiRest>>

\* POST /predict arrives: the body is validated against PatientFeatures
\* before the handler is called, and refused with 422 if it fails
ReceivePredict(r) ==
    /\ app_pc = "serving"
    /\ requests[r].pc = "free"
    /\ \E body \in ApiBodies :
         LET v == PatientFeatures(body)
         IN requests' = [requests EXCEPT ![r] =
                IF v.ok
                THEN [NoRequest EXCEPT !.endpoint = "/predict", !.body = body,
                                       !.features = v.features, !.pc = "routed"]
                ELSE [NoRequest EXCEPT !.endpoint = "/predict", !.body = body,
                                       !.response = HTTPException(422, "validation"),
                                       !.pc = "done"]]
    /\ UNCHANGED <<app_pc, app_log, predictor, self, ctor, apiRest>>

\* the handler of /predict up to its try: 503 when no predictor is loaded
PredictCheck(r) ==
    /\ requests[r].pc = "routed"
    /\ requests[r].endpoint = "/predict"
    /\ requests' = [requests EXCEPT ![r] =
            IF predictor = None
            THEN [@ EXCEPT !.response = HTTPException(503, "Model not loaded"),
                           !.pc = "done"]
            ELSE [@ EXCEPT !.pc = "try"]]
    /\ UNCHANGED <<app_pc, app_log, predictor, self, ctor, apiRest>>

\* result = predictor.predict(features_dict); what it raises becomes a 500
PredictCall(r) ==
    /\ requests[r].pc = "try"
    /\ LET o == predict(predictor, requests[r].features)
           res == [raised |-> o.raised, ret |-> o.ret, calls |-> o.calls]
       IN /\ predictor' = o.self
          /\ requests' = [requests EXCEPT ![r] =
                IF o.raised # "none"
                THEN [@ EXCEPT !.result = res,
                               !.response = HTTPException(500, o.raised),
                               !.pc = "done"]
                ELSE [@ EXCEPT !.result = res, !.pc = "predicted"]]
    /\ UNCHANGED <<app_pc, app_log, self, ctor, apiRest>>

\* return PredictionResponse(...)
PredictRespond(r) ==
    /\ requests[r].pc = "predicted"
    /\ requests' = [requests EXCEPT ![r].response = PredictionResponse(requests[r].result.ret),
                                    ![r].pc = "done"]
    /\ UNCHANGED <<app_pc, app_log, predictor, self, ctor, apiRest>>

NextApi ==
    \/ Startup
    \/ \E r \in 1..MaxRequests :
         \/ ReceiveHealth(r)
         \/ HealthCheck(r)
         \/ ReceivePredict(r)
         \/ PredictCheck(r)
         \/ PredictCall(r)
         \/ PredictRespond(r)

SpecApi == InitApi /\ [][NextApi]_vars

\* --------------------------------------------- fit and transform: steps
\* the features of the configuration that are columns of the frame
ListedIn(features, cols) == SelectSeq(features, LAMBDA f : f \in cols)

\* a cleaned feature frame of 1..MaxFitRows rows over age and sex, with or
\* without a column outside the configuration, and a later frame of up to
\* MaxNewRows rows over the same columns
InitTransform ==
    /\ CleanIdle
    /\ ToolIdle
    /\ TrainIdle
    /\ ValidateIdle
    /\ PredictorIdle
    /\ ApiIdle
    /\ \E cols \in {{"age", "sex"}, {"age", "sex", "extra"}} :
         /\ \E n \in 1..MaxFitRows : \E rs \in [1..n -> [cols -> FitCells]] :
              fit_X = [columns |-> cols, index |-> RangeIndex(n), rows |-> rs]
         /\ \E n \in 0..MaxNewRows :
            \E rs \in [1..n -> [cols -> UNION {NewCells(c) : c \in cols}]] :
              /\ \A i \in 1..n : \A c \in cols : rs[i][c] \in NewCells(c)
              /\ new_X = [columns |-> cols, index |-> RangeIndex(n), rows |-> rs]
    /\ fitted = NotFitted
    /\ fit_out = NoOutput
    /\ new_out = NoOutput
    /\ transform_pc = "created"

\* X_processed = preprocessor.fit_transform(X) of prepare_data
FitTransform ==
    /\ transform_pc = "created"
    /\ LET pre == fit(ListedIn(ConfigNumerical, fit_X.columns),
                      ListedIn(ConfigCategorical, fit_X.columns), fit_X)
       IN /\ fitted' = pre
          /\ fit_out' = transform(pre, fit_X)
    /\ transform_pc' = "fitted"
    /\ UNCHANGED <<toolVars, fit_X, new_X, new_out, cleanVars, trainVars, validateVars,
                   predictorVars, apiVars>>

\* preprocessor.transform(X) on the later frame
Transform ==
    /\ transform_pc = "fitted"
    /\ new_out' = transform(fitted, new_X)
    /\ transform_pc' = "transformed"
    /\ UNCHANGED <<toolVars, fit_X, fitted, fit_out, new_X, cleanVars, trainVars, validateVars,
                   predictorVars, apiVars>>

NextTransform ==
    \/ FitTransform
    \/ Transform

SpecTransform == InitTransform /\ [][NextTransform]_vars

\* ------------------------------------------------------ split_data: steps
\* a feature frame of up to MaxSplitRows rows whose targets are zeros, then
\* ones; each seed has its stream
InitSplit ==
    /\ CleanIdle
    /\ TrainIdle
    /\ ServeIdle
    /\ \E n \in 0..MaxSplitRows : \E k \in 0..n :
         /\ split_X = [i \in 1..n |-> [age |-> 20 + i]]
         /\ split_y = [i \in 1..n |-> IF i <= k THEN 0 ELSE 1]
    /\ RandomState \in [RandomStates -> Streams]
    /\ np_random = 0
    /\ split_calls = <<>>
    /\ split_pc = "ready"
    /\ EvalIdle
    /\ SchemaIdle
    /\ ScriptIdle

\* one call of split_data on the frame
SplitCall ==
    /\ split_pc = "ready"
    /\ Len(split_calls) < MaxCalls
    /\ \E test_size \in TestSizes : \E random_state \in RandomStates :
         LET rng == check_random_state(random_state, RandomState)
             stream == IF rng.global THEN GlobalStream(np_random) ELSE rng.stream
         IN /\ split_calls' = Append(split_calls,
                    [test_size |-> test_size, random_state |-> random_state,
                     ret |-> split_data(split_X, split_y, test_size, stream)])
            /\ np_random' = IF rng.global THEN np_random + 1 ELSE np_random
    /\ UNCHANGED <<split_X, split_y, RandomState, split_pc, cleanVars, trainVars, serveVars,
                   evalVars, schemaVars, scriptVars>>

NextSplit == SplitCall

SpecSplit == InitSplit /\ [][NextSplit]_vars

\* -------------------------------------------------- evaluate_model: steps
\* the rows with the feature of the first one turned over
OtherRows(rows) ==
    [i \in 1..Len(rows) |-> IF i = 1 THEN [rows[i] EXCEPT !.x = 1 - @] ELSE rows[i]]

\* train_and_log_model up to its call of evaluate_model: a candidate fitted
\* on a train partition of up to MaxEvalTrain rows, a test partition of up
\* to MaxEvalTest rows, and cv_folds
InitEvaluate ==
    /\ CleanIdle
    /\ TrainIdle
    /\ ServeIdle
    /\ SplitIdle
    /\ SchemaIdle
    /\ ScriptIdle
    /\ \E n \in 1..MaxEvalTrain : eval_train \in [1..n -> EvalRows]
    /\ \E n \in 0..MaxEvalTest : eval_test \in [1..n -> EvalRows]
    /\ eval_cv \in CvFolds
    /\ \E class \in RegisteredModels :
         \E m \in {estimator_fit(Unfitted(class), eval_train, DOMAIN eval_train)} :
            m.raised = "none" /\ estimator = m.model
    /\ eval_calls = <<>>
    /\ eval_pc = "ready"

\* one call of evaluate_model on the fitted model; after the first call the
\* caller may hand over another train or test partition
EvaluateCall ==
    /\ eval_pc = "ready"
    /\ Len(eval_calls) < MaxEvalCalls
    /\ \E other_train, other_test \in BOOLEAN :
         /\ (eval_calls = <<>>) => (~other_train /\ ~other_test)
         /\ \E train \in {IF other_train THEN OtherRows(eval_train) ELSE eval_train} :
            \E test \in {IF other_test THEN OtherRows(eval_test) ELSE eval_test} :
            \E ret \in {evaluate_model(estimator, train, test, eval_cv)} :
               /\ eval_calls' = Append(eval_calls,
                     [model |-> estimator, train |-> train, test |-> test,
                      cv_folds |-> eval_cv, ret |-> ret])
               /\ estimator' = ret.model
    /\ UNCHANGED <<eval_train, eval_test, eval_cv, eval_pc, cleanVars, trainVars, serveVars,
                   splitVars, schemaVars, scriptVars>>

NextEvaluate == EvaluateCall

SpecEvaluate == InitEvaluate /\ [][NextEvaluate]_vars

\* ------------------------------------------------- the two schemas: steps
\* what a client may put in one field, a string included
BodyCells(k) == Alternatives(k) \cup {Unparseable}

\* the mapping put to both schemas: the sample patient with up to MaxDefects
\* fields replaced, with or without a key outside the schema
InitSchema ==
    /\ CleanIdle
    /\ TrainIdle
    /\ ServeIdle
    /\ SplitIdle
    /\ EvalIdle
    /\ ScriptIdle
    /\ \E ks \in SUBSET SchemaKeys : \E extra \in BOOLEAN :
         /\ Cardinality(ks) <= MaxDefects
         /\ \E alt \in [ks -> UNION {BodyCells(k) : k \in SchemaKeys}] :
              /\ \A k \in ks : alt[k] \in BodyCells(k)
              /\ schema_body = Record(ks, alt, extra)
    /\ parsed = NotParsed
    /\ dump_errors = <<>>
    /\ body_errors = <<>>
    /\ schema_pc = "idle"

\* the serving layer's way: PatientFeatures(**body), and validate_features
\* on the dump of an accepted body
ParseRequest ==
    /\ schema_pc \in {"idle", "validated"}
    /\ \E p \in {PatientFeatures(schema_body)} :
         /\ parsed' = p
         /\ dump_errors' = IF p.ok THEN validate_features(p.features) ELSE <<>>
    /\ schema_pc' = IF schema_pc = "idle" THEN "parsed" ELSE "both"
    /\ UNCHANGED <<schema_body, body_errors, cleanVars, trainVars, serveVars, splitVars,
                   evalVars, scriptVars>>

\* the predictor's way: validate_features on the mapping itself
ValidateRecord ==
    /\ schema_pc \in {"idle", "parsed"}
    /\ body_errors' = validate_features(schema_body)
    /\ schema_pc' = IF schema_pc = "idle" THEN "validated" ELSE "both"
    /\ UNCHANGED <<schema_body, parsed, dump_errors, cleanVars, trainVars, serveVars,
                   splitVars, evalVars, scriptVars>>

NextSchema ==
    \/ ParseRequest
    \/ ValidateRecord

SpecSchema == InitSchema /\ [][NextSchema]_vars

\* --------------------------------------------- the registry scripts: steps
scriptRest == <<cleanVars, trainVars, serveVars, splitVars, evalVars, schemaVars>>

ScriptRestIdle ==
    CleanIdle /\ TrainIdle /\ ServeIdle /\ SplitIdle /\ EvalIdle /\ SchemaIdle

\* a registry in which the first model has up to MaxVersions versions in any
\* stage and the second one a single version in Production
InitPromote ==
    /\ ScriptRestIdle
    /\ \E mine \in [1..MaxVersions -> Stages \cup {NoStage}] :
         model_versions =
            [name \in {RegisteredNames[1], RegisteredNames[2]} |->
                IF name = RegisteredNames[1] THEN mine
                ELSE [v \in 1..MaxVersions |-> IF v = 1 THEN "Production" ELSE NoStage]]
    /\ script_call = NoScriptCall
    /\ script_pc = "ready"

\* python scripts/promote-model.py <model_name> [version]
PromoteModel ==
    /\ script_pc = "ready"
    /\ \E model_name \in {RegisteredNames[1], UnregisteredName} :
       \E version \in {NoVersion} \cup (1..(MaxVersions + 1)) :
       \E env \in PromoteEnvs :
       \E out \in {promote_model(model_versions, model_name, version, env)} :
         /\ script_call' = [op |-> "promote_model", model_name |-> model_name,
                            version |-> version, env |-> env, met |-> model_versions,
                            ret |-> out.ret, tried |-> out.tried]
         /\ model_versions' = out.registry
    /\ script_pc' = "done"
    /\ UNCHANGED scriptRest

NextPromote == PromoteModel

SpecPromote == InitPromote /\ [][NextPromote]_vars

\* a registry in which the first model has up to MaxVersions versions that are
\* in no stage, in Production or archived, and the second one up to
\* MaxVersions versions in no stage
InitCleanup ==
    /\ ScriptRestIdle
    /\ \E mine \in [1..MaxVersions -> {"None", "Production", "Archived", NoStage}] :
       \E other \in [1..MaxVersions -> {"None", NoStage}] :
         model_versions =
            [name \in {RegisteredNames[1], RegisteredNames[2]} |->
                IF name = RegisteredNames[1] THEN mine ELSE other]
    /\ script_call = NoScriptCall
    /\ script_pc = "ready"

\* python scripts/promote-model.py --cleanup [model_name] [keep_count]
CleanupOldVersions ==
    /\ script_pc = "ready"
    /\ \E model_name \in {NoName, RegisteredNames[1], RegisteredNames[2], UnregisteredName} :
       \E keep_last \in 0..MaxKeep :
       \E env \in CleanupEnvs :
       \E out \in {cleanup_old_versions(model_versions, model_name, keep_last, env)} :
         /\ script_call' = [op |-> "cleanup_old_versions", model_name |-> model_name,
                            keep_last |-> keep_last, env |-> env, met |-> model_versions,
                            ret |-> out.ret]
         /\ model_versions' = out.registry
    /\ script_pc' = "done"
    /\ UNCHANGED scriptRest

NextCleanup == CleanupOldVersions

SpecCleanup == InitCleanup /\ [][NextCleanup]_vars





\* ================================================================= claims
\* ------------------------------------------------------------- clean_data
Listed == numerical_cols \cup categorical_cols

\* the raw row that carries the label of the j-th cleaned row
RawRowOf(j) == df.rows[cleaned.index[j] + 1]

\* a raw cell that holds a number pandas can read
Parseable(c) == c.kind = "num"

\* the rows of the raw table whose cell in col is parseable
ParseableRows(col) == {i \in 1..Len(df.rows) : Parseable(df.rows[i][col])}

\* how many parseable cells of col are at most x (in twice-units)
AtMost(col, x) == Cardinality({i \in ParseableRows(col) : df.rows[i][col].twice <= x})

\* the k-th smallest parseable value of col, by counting
Kth(col, k) ==
    LET vals == {df.rows[i][col].twice : i \in ParseableRows(col)}
    IN CHOOSE x \in vals :
         /\ AtMost(col, x) >= k
         /\ \A w \in vals : AtMost(col, w) >= k => x <= w

\* the median of the parseable values of col, by order statistics
RawMedian(col) ==
    LET n == Cardinality(ParseableRows(col))
    IN IF n % 2 = 1 THEN Kth(col, (n + 1) \div 2)
       ELSE (Kth(col, n \div 2) + Kth(col, n \div 2 + 1)) \div 2

Occurrences(col, x) ==
    Cardinality({i \in ParseableRows(col) : df.rows[i][col].twice = x})

\* x is the mode of col: no value occurs more often, and of the values that
\* occur as often it is the smallest
IsRawMode(col, x) ==
    /\ Occurrences(col, x) > 0
    /\ \A i \in ParseableRows(col) :
         LET w == df.rows[i][col].twice
         IN /\ Occurrences(col, x) >= Occurrences(col, w)
            /\ (Occurrences(col, x) = Occurrences(col, w) => x <= w)

\* C1: when the table has a target column, every returned target is 0 or 1,
\* and it is 1 exactly when the raw target of that same row was above 0.
C1_BinaryTarget ==
    (clean_pc = "done" /\ "target" \in df.columns) =>
        /\ "target" \in cleaned.columns
        /\ \A j \in 1..Len(cleaned.rows) :
             LET out == cleaned.rows[j]["target"]
                 inp == RawRowOf(j)["target"]
             IN /\ out \in {Num(0), Num(1)}
                /\ (out = Num(1)) <=> (Parseable(inp) /\ inp.twice > 0)

\* a cleaned table with a row dropped, a survivor whose raw target was above 1
\* and a survivor whose raw target was 0
C1_Witness ==
    /\ clean_pc = "done"
    /\ "target" \in df.columns
    /\ Len(cleaned.rows) < Len(df.rows)
    /\ \E j \in 1..Len(cleaned.rows) : RawRowOf(j)["target"] = Num(2)
    /\ \E j \in 1..Len(cleaned.rows) : RawRowOf(j)["target"] = Num(0)

\* C2: the table clean_data returns has no missing value in any column,
\* whatever the raw table held.
C2_NoMissing ==
    clean_pc = "done" =>
        \A j \in 1..Len(cleaned.rows) : \A c \in cleaned.columns :
            ~isna(cleaned.rows[j][c])

\* a raw table whose numerical column is entirely missing and whose unlisted
\* column has a missing value
C2_Witness ==
    /\ clean_pc = "done"
    /\ {"age", "extra"} \subseteq df.columns
    /\ Len(df.rows) >= 2
    /\ \A i \in 1..Len(df.rows) : ~Parseable(df.rows[i]["age"])
    /\ \E i \in 1..Len(df.rows) : isna(df.rows[i]["extra"])

\* C3 as stated: after imputation a missing value remains only in a column
\* that is neither numerical nor categorical.
C3_OnlyUnlistedMissing ==
    clean_pc = "done" =>
        \A i \in 1..Len(imputed.rows) : \A c \in imputed.columns :
            isna(imputed.rows[i][c]) => c \notin Listed

\* C3 amended: after imputation a missing value remains only in an unlisted
\* column, or in a numerical column none of whose raw values is parseable.
C3_MissingAfterImputation ==
    clean_pc = "done" =>
        \A i \in 1..Len(imputed.rows) : \A c \in imputed.columns :
            isna(imputed.rows[i][c]) =>
                \/ c \notin Listed
                \/ c \in numerical_cols /\ ParseableRows(c) = {}

\* imputation filled a numerical and a categorical cell, and the only missing
\* value left is in the unlisted column
C3_Witness ==
    /\ clean_pc = "done"
    /\ df.columns = {"age", "sex", "extra"}
    /\ \E i \in 1..Len(df.rows) : ~Parseable(df.rows[i]["age"])
    /\ \E i \in 1..Len(df.rows) : ~Parseable(df.rows[i]["sex"])
    /\ ParseableRows("age") # {}
    /\ \E i \in 1..Len(imputed.rows) : isna(imputed.rows[i]["extra"])
    /\ Len(cleaned.rows) < Len(df.rows)

\* every cell of the numerical column col: kept when parseable, else the
\* median of the parseable values
NumericalImputed(col) ==
    \A i \in 1..Len(df.rows) :
        IF Parseable(df.rows[i][col])
        THEN imputed.rows[i][col] = df.rows[i][col]
        ELSE /\ ParseableRows(col) # {}
             /\ imputed.rows[i][col] = [kind |-> "num", twice |-> RawMedian(col)]

\* every cell of the categorical column col: kept when parseable, else the
\* mode of the parseable values, or 0 when there is none
CategoricalImputed(col) ==
    \A i \in 1..Len(df.rows) :
        IF Parseable(df.rows[i][col])
        THEN imputed.rows[i][col] = df.rows[i][col]
        ELSE IF ParseableRows(col) = {}
             THEN imputed.rows[i][col] = Num(0)
             ELSE /\ imputed.rows[i][col].kind = "num"
                  /\ IsRawMode(col, imputed.rows[i][col].twice)

\* every missing or unparseable raw cell lies in a listed column
MissingOnlyInListed ==
    \A i \in 1..Len(df.rows) : \A c \in df.columns :
        ~Parseable(df.rows[i][c]) => c \in Listed

\* no row was dropped and the rows kept their order
NoRowDropped ==
    /\ cleaned.index = df.index
    /\ cleaned.rows = imputed.rows

\* C4 as stated: missing numerical cells become the column median, missing
\* categorical cells the column mode (0 without one), parseable cells stay,
\* and with all missing values in listed columns no row is dropped.
C4_ImputeAndKeep ==
    clean_pc = "done" =>
        /\ \A c \in numerical_cols \cap df.columns : NumericalImputed(c)
        /\ \A c \in categorical_cols \cap df.columns : CategoricalImputed(c)
        /\ MissingOnlyInListed => NoRowDropped

\* C4 amended: as stated for every numerical column that has a parseable
\* value; a numerical column without one stays missing and every row is
\* dropped.
C4_ImputeAndKeepAmended ==
    clean_pc = "done" =>
        /\ \A c \in numerical_cols \cap df.columns :
             IF ParseableRows(c) # {}
             THEN NumericalImputed(c)
             ELSE /\ \A i \in 1..Len(imputed.rows) : isna(imputed.rows[i][c])
                  /\ cleaned.rows = <<>>
        /\ \A c \in categorical_cols \cap df.columns : CategoricalImputed(c)
        /\ (MissingOnlyInListed
              /\ \A c \in numerical_cols \cap df.columns : ParseableRows(c) # {})
           => NoRowDropped

\* three rows, a missing numerical cell between two different values, a
\* missing categorical cell beside a tie, and nothing dropped
C4_Witness ==
    /\ clean_pc = "done"
    /\ {"age", "sex"} \subseteq df.columns
    /\ Len(df.rows) = 3
    /\ Cardinality(ParseableRows("age")) = 2
    /\ \E i, k \in ParseableRows("age") : df.rows[i]["age"] # df.rows[k]["age"]
    /\ Cardinality(ParseableRows("sex")) = 2
    /\ \E i, k \in ParseableRows("sex") : df.rows[i]["sex"] # df.rows[k]["sex"]
    /\ Len(cleaned.rows) = 3

\* ------------------------------------------------------------ training run
\* the positions of models_to_train that name an unregistered model
UnknownAt == {i \in 1..Len(models_to_train) : models_to_train[i] \notin RegisteredModels}

\* the first of them
FirstUnknown == CHOOSE i \in UnknownAt : \A j \in UnknownAt : i <= j

\* the first position at which models_to_train names k
FirstPos(k) ==
    CHOOSE i \in 1..Len(models_to_train) :
        /\ models_to_train[i] = k
        /\ \A j \in 1..(i - 1) : models_to_train[j] # k

Trained == DOMAIN results.val

\* C5 as stated: with an unregistered identifier in models_to_train no data
\* file is ever loaded, prepared or split and no candidate is ever trained.
C5_FailsBeforeDataProcessing ==
    UnknownAt # {} =>
        /\ pc \in {"setup", "load", "failed"}
        /\ train_df = EmptyTable
        /\ Trained = {}

\* C5 amended: with an unregistered identifier in models_to_train the run
\* never selects a model and writes no artifact; the loop never gets past the
\* first such identifier, and the ValueError of get_model is raised there,
\* after the data were loaded, prepared and split and every earlier candidate
\* was trained.
C5_FailsWhenReached ==
    UnknownAt # {} =>
        /\ pc \notin {"promote", "save", "done"}
        /\ best_model_name = "none"
        /\ writes = {}
        /\ disk \in {NoFiles, OldFiles}
        /\ cur <= FirstUnknown
        /\ error.call = "get_model" =>
             /\ error.type = "ValueError"
             /\ pc = "failed"
             /\ cur = FirstUnknown
             /\ train_df = raw_file.table
             /\ preprocessor = fit_transform(X)
             /\ train_idx \cup test_idx = 1..Len(y)
             /\ Trained = {models_to_train[i] : i \in 1..(FirstUnknown - 1)}

\* the run failed on "svm" after it trained an earlier candidate
C5_Witness ==
    /\ pc = "failed"
    /\ error.call = "get_model"
    /\ models_to_train = <<"logistic_regression", "svm">>
    /\ Trained = {"logistic_regression"}
    /\ train_idx # {}

\* C6: a model instance exists only for logistic_regression and
\* random_forest, built from that identifier's hyperparameters; any other
\* identifier raises ValueError and the loop never gets past it.
C6_GetModel ==
    /\ \A k \in Trained :
         /\ k \in RegisteredModels
         /\ results.val[k].model.params = config.model[k]
         /\ results.val[k].model.class =
              (IF k = "logistic_regression" THEN "LogisticRegression"
               ELSE "RandomForestClassifier")
    /\ \A i \in 1..Len(models_to_train) :
         i < cur => models_to_train[i] \in RegisteredModels
    /\ error.call = "get_model" =>
         /\ error.type = "ValueError"
         /\ models_to_train[cur] \notin RegisteredModels
    /\ (pc = "train" /\ cur > Len(models_to_train)) =>
         \A i \in 1..Len(models_to_train) : models_to_train[i] \in Trained

\* both registered models were made, each from its own hyperparameters
C6_Witness ==
    /\ pc = "train"
    /\ Trained = RegisteredModels
    /\ results.val["random_forest"].model.params.n_estimators = 10
    /\ results.val["logistic_regression"].model.params.max_iter = 100

\* C7: the selected candidate has the greatest roc_auc, and of the
\* candidates with that roc_auc it is the one named first in models_to_train.
C7_SelectsFirstGreatest ==
    pc \in {"promote", "save", "done"} =>
        /\ best_model_name \in Trained
        /\ \A k \in Trained :
             /\ roc_auc_of[best_model_name] >= roc_auc_of[k]
             /\ roc_auc_of[k] = roc_auc_of[best_model_name]
                  => FirstPos(best_model_name) <= FirstPos(k)

\* two candidates with the same roc_auc, the first of them selected
C7_Witness ==
    /\ pc = "promote"
    /\ Len(results.keys) = 2
    /\ roc_auc_of[results.keys[1]] = roc_auc_of[results.keys[2]]
    /\ best_model_name = models_to_train[1]

\* C8: after a successful run the stored model is the selected candidate's,
\* which has the greatest roc_auc; no write of the run put another candidate's
\* model on disk; the stored model info names that candidate with its metrics
\* and the configuration; nothing of a previous run is left.
C8_PersistsBest ==
    pc = "done" =>
        /\ best_model_name \in Trained
        /\ \A k \in Trained : roc_auc_of[best_model_name] >= roc_auc_of[k]
        /\ disk["best_model.joblib"] =
             [kind |-> "model", content |-> results.val[best_model_name].model]
        /\ \A w \in writes : \A k \in Trained \ {best_model_name} :
             w.content # results.val[k].model
        /\ disk["model_info.yaml"] =
             [kind |-> "model_info",
              content |-> [model_name |-> best_model_name,
                           metrics |-> results.val[best_model_name].metrics,
                           config |-> config]]
        /\ \A f \in ArtifactPaths : disk[f].kind \notin {"absent", "previous run"}

\* a finished run of two candidates in which the second one won
C8_Witness ==
    /\ pc = "done"
    /\ Len(results.keys) = 2
    /\ best_model_name = results.keys[2]
    /\ disk["best_model.joblib"].content.fitted_at = 2

\* C9: no failure of a parameter, metric, figure or model logging call, of
\* the version search, of tagging or of the alias call ends the run.
C9_TrackingFailuresNotRaised ==
    error.call \notin
        {"log_params", "log_metric", "log_metrics", "log_figure", "log_model",
         "search_model_versions", "set_model_version_tag",
         "set_registered_model_alias"}

\* C10: once the data are split, what the preprocessor learned is what a fit
\* on the rows of the train partition alone learns.
C10_FitOnTrainOnly ==
    pc = "train" => preprocessor = FitOn(X, train_idx)


\* --------------------------------------------------------------- inference
\* how often the entry e occurs in the list s
CountIn(s, e) == Cardinality({i \in 1..Len(s) : s[i] = e})

\* the schema field k is in the validated mapping
Has(k) == k \in DOMAIN record.val

\* the field k of the validated mapping is below its min or above its max
Outside(k) ==
    /\ Has(k)
    /\ record.val[k].kind = "num"
    /\ \/ record.val[k].twice < 2 * FEATURE_SCHEMA[k].min
       \/ record.val[k].twice > 2 * FEATURE_SCHEMA[k].max

\* C12: validate_features returns a list with exactly one "missing" entry
\* for each schema field absent from the input, exactly one "out of range"
\* entry for each present schema field below its min or above its max
\* (bounds inclusive), and nothing else; the list is empty exactly when all
\* 13 fields are present and in range; missing only thal gives one missing
\* entry and no range entry; age = 200 alone gives one range entry and no
\* missing entry.
C12_ValidateFeatures ==
    validate_pc = "done" =>
        /\ \A k \in SchemaKeys :
             /\ CountIn(errors, Missing(k)) = (IF Has(k) THEN 0 ELSE 1)
             /\ CountIn(errors, OutOfRange(k)) = (IF Outside(k) THEN 1 ELSE 0)
        /\ \A i \in 1..Len(errors) :
             \E k \in SchemaKeys : errors[i] \in {Missing(k), OutOfRange(k)}
        /\ (errors = <<>>) <=> (\A k \in SchemaKeys : Has(k) /\ ~Outside(k))
        /\ ((\A k \in SchemaKeys : Has(k) <=> k # "thal")
            /\ (\A k \in SchemaKeys : ~Outside(k)))
           => errors = <<Missing("thal")>>
        /\ ((\A k \in SchemaKeys : Has(k))
            /\ record.val["age"] = Num(200)
            /\ (\A k \in SchemaKeys \ {"age"} : ~Outside(k)))
           => errors = <<OutOfRange("age")>>

\* validate_features returned for a mapping that lacks thal, has age = 200
\* and carries a key outside the schema
C12_Witness ==
    /\ validate_pc = "done"
    /\ ~Has("thal")
    /\ Has("age") /\ record.val["age"] = Num(200)
    /\ ExtraKey \in DOMAIN record.val
    /\ errors = <<Missing("thal"), OutOfRange("age")>>


\* the record of a finished predict call, and whether it passes validation
Predicted(c) == run_pc = "done" /\ call = c

ValidRecord(features) == validate_features(features) = <<>>

\* C11: predict never invokes the preprocessor or the model on a record
\* that lacks a required field or has a value outside its range; such a
\* record yields the list of violations instead of a prediction.
C11_ValidatesBeforeModel ==
    (Predicted("predict") /\ ~ValidRecord(features_list[1])) =>
        /\ outcome.calls = <<>>
        /\ outcome.raised = "none"
        /\ outcome.ret = [violations |-> validate_features(features_list[1])]

\* the row the preprocessor makes of one record
RowOf(features) ==
    transform(predictor.preprocessor.state, DataFrame(<<features.val>>)).X[1]

\* C13: for a valid record, predict returns the model's hard class label (0
\* or 1), the label "Heart Disease" exactly when the prediction is 1 and
\* "No Heart Disease" otherwise, the model's class-0 and class-1
\* probabilities, and as confidence the larger of the two.
C13_PredictOutput ==
    (Predicted("predict") /\ ValidRecord(features_list[1])) =>
        LET x == RowOf(features_list[1])
            p == predict_proba(predictor.model, x)
        IN /\ outcome.raised = "none"
           /\ outcome.ret.prediction = model_predict(predictor.model, x)
           /\ outcome.ret.prediction \in {0, 1}
           /\ outcome.ret.prediction_label =
                (IF outcome.ret.prediction = 1 THEN "Heart Disease"
                 ELSE "No Heart Disease")
           /\ outcome.ret.probability_no_disease = p[1]
           /\ outcome.ret.probability_disease = p[2]
           /\ outcome.ret.confidence >= p[1]
           /\ outcome.ret.confidence >= p[2]
           /\ outcome.ret.confidence \in {p[1], p[2]}

\* predict returned "No Heart Disease" for a valid record, with the class-0
\* probability as confidence
C13_Witness ==
    /\ Predicted("predict")
    /\ ValidRecord(features_list[1])
    /\ outcome.raised = "none"
    /\ outcome.ret.prediction = 0
    /\ outcome.ret.prediction_label = "No Heart Disease"
    /\ outcome.ret.confidence = outcome.ret.probability_no_disease
    /\ outcome.ret.probability_no_disease > outcome.ret.probability_disease

\* C14: predict_batch returns, at each position, what predict returns for
\* that record alone, whatever the other records of the list are.
C14_BatchIndependent ==
    Predicted("predict_batch") =>
        \A i \in 1..Len(features_list) :
            predict(predictor, features_list[i]).raised = "none" =>
                /\ outcome.raised = "none"
                /\ Len(outcome.ret) = Len(features_list)
                /\ outcome.ret[i] = predict(predictor, features_list[i]).ret

\* C15: constructing a predictor when the model file or the preprocessor
\* file is absent raises FileNotFoundError, which predict never raises,
\* before any artifact is loaded; a predictor reference always has both
\* artifacts.
C15_ConstructorFileNotFound ==
    /\ (run_pc \in {"ready", "failed", "done"}
        /\ \/ files[ModelPaths[1]].kind = "absent"
           \/ files[PipelinePaths[1]].kind = "absent")
       => /\ ctor.raised = "FileNotFoundError"
          /\ ctor.loads = <<>>
          /\ self.model = None
          /\ self.preprocessor = None
          /\ predictor = None
    /\ predictor # None => (predictor.model # None /\ predictor.preprocessor # None)
    /\ outcome.raised # "FileNotFoundError"

\* the constructor failed where the model file is there and the
\* preprocessor file is not
C15_Witness ==
    /\ run_pc = "failed"
    /\ files[ModelPaths[1]].kind = "joblib"
    /\ files[PipelinePaths[1]].kind = "absent"
    /\ ctor.raised = "FileNotFoundError"


\* ---------------------------------------------------------- serving layer
\* the pair of paths startup_event settled on: the first whose files exist
FirstPair ==
    {i \in 1..2 : /\ files[ModelPaths[i]].kind # "absent"
                  /\ files[PipelinePaths[i]].kind # "absent"
                  /\ \A j \in 1..(i - 1) : \/ files[ModelPaths[j]].kind = "absent"
                                           \/ files[PipelinePaths[j]].kind = "absent"}

\* a predictor was constructed from both artifacts at startup
LoadedAtStartup ==
    \E i \in FirstPair : /\ files[ModelPaths[i]].kind = "joblib"
                         /\ files[PipelinePaths[i]].kind = "joblib"

Answered(r, endpoint) == requests[r].pc = "done" /\ requests[r].endpoint = endpoint

\* C16: after startup the health endpoint answers 200 with model_loaded
\* true exactly when a predictor was constructed from both artifacts at
\* startup, and with status "healthy" exactly when model_loaded is true and
\* "degraded" otherwise; startup never fails the process, whatever the
\* artifact files are.
C16_HealthReflectsLoad ==
    /\ app_pc \in {"off", "boot", "serving"}
    /\ app_pc = "serving" => (predictor # None <=> LoadedAtStartup)
    /\ \A r \in 1..MaxRequests :
         Answered(r, "/health") =>
            /\ requests[r].response.status_code = 200
            /\ requests[r].response.body.model_loaded = LoadedAtStartup
            /\ requests[r].response.body.status =
                 (IF requests[r].response.body.model_loaded THEN "healthy"
                  ELSE "degraded")

\* the health endpoint answered "degraded" after a startup that found the
\* first pair of files but could not load it, while the second pair was fine
C16_Witness ==
    /\ app_pc = "serving"
    /\ files[ModelPaths[1]].kind = "corrupt"
    /\ files[PipelinePaths[1]].kind = "joblib"
    /\ files[ModelPaths[2]].kind = "joblib"
    /\ files[PipelinePaths[2]].kind = "joblib"
    /\ \E r \in 1..MaxRequests :
         /\ Answered(r, "/health")
         /\ requests[r].response.body.status = "degraded"

\* the body lacks a field, holds a value that is no number, or holds a value
\* outside the bounds of its field
BadBody(body) ==
    \E k \in SchemaKeys :
        \/ k \notin DOMAIN body.val
        \/ body.val[k].kind \notin {"num", "nan"}
        \/ /\ body.val[k].kind = "num"
           /\ \/ body.val[k].twice < 2 * PatientFields[k].ge
              \/ body.val[k].twice > 2 * PatientFields[k].le

\* every field of the body is there and is a number within its bounds
SchemaValid(body) ==
    \A k \in SchemaKeys :
        /\ k \in DOMAIN body.val
        /\ body.val[k].kind = "num"
        /\ body.val[k].twice >= 2 * PatientFields[k].ge
        /\ body.val[k].twice <= 2 * PatientFields[k].le
        /\ PatientFields[k].type = "int" => body.val[k].twice % 2 = 0

SixFields ==
    {"prediction", "prediction_label", "probability_no_disease",
     "probability_disease", "confidence", "timestamp"}

\* C17: /predict answers 422 to a body that lacks a field, has a
\* non-numeric value or a value outside its bounds, whether or not the
\* model is loaded and without invoking the predictor; it answers a
\* schema-valid body with 503 when no predictor is loaded, and otherwise
\* with 200 and the six response fields, or with 500 if the predictor
\* raises.
C17_PredictStatus ==
    \A r \in 1..MaxRequests :
        Answered(r, "/predict") =>
            /\ BadBody(requests[r].body) =>
                 /\ requests[r].response.status_code = 422
                 /\ requests[r].result.calls = <<>>
            /\ (SchemaValid(requests[r].body) /\ predictor = None) =>
                 /\ requests[r].response.status_code = 503
                 /\ requests[r].result.calls = <<>>
            /\ (SchemaValid(requests[r].body) /\ predictor # None) =>
                 \/ /\ requests[r].response.status_code = 200
                    /\ requests[r].result.raised = "none"
                    /\ DOMAIN requests[r].response.body = SixFields
                 \/ /\ requests[r].response.status_code = 500
                    /\ requests[r].result.raised # "none"

\* with a predictor loaded, one request with age = 200 was answered 422 and
\* another, schema-valid one was answered 200
C17_Witness ==
    /\ predictor # None
    /\ \E r, q \in 1..MaxRequests :
         /\ Answered(r, "/predict")
         /\ "age" \in DOMAIN requests[r].body.val
         /\ requests[r].body.val["age"] = Num(200)
         /\ requests[r].response.status_code = 422
         /\ Answered(q, "/predict")
         /\ SchemaValid(requests[q].body)
         /\ requests[q].response.status_code = 200

\* C18: once startup has loaded the predictor, no step of a request
\* handler changes the predictor reference, the model or the preprocessor,
\* and every answered prediction request holds the result the loaded
\* predictor gives for its record alone, however the requests interleave.
C18_PredictorReadOnly ==
    [][app_pc = "serving" =>
          /\ predictor' = predictor
          /\ \A r \in 1..MaxRequests :
               (requests'[r].pc = "done" /\ requests'[r].response.status_code = 200
                /\ requests'[r].endpoint = "/predict") =>
                    requests'[r].response =
                        PredictionResponse(predict(self, requests'[r].features).ret)]_vars

\* two prediction requests for different records are in the handler at
\* the same time, both past their call of predict, with different results
C18_Witness ==
    /\ predictor # None
    /\ requests[1].pc = "predicted"
    /\ requests[2].pc = "predicted"
    /\ requests[1].features # requests[2].features
    /\ requests[1].result.ret # requests[2].result.ret

\* ------------------------------------------------------ fit and transform
\* the cells the column f held at fit time
SeenAtFit(f) == {fit_X.rows[i][f] : i \in 1..Len(fit_X.rows)}

\* the output columns before the block of the k-th categorical feature
BlockStart(k) ==
    Len(fitted.numerical)
    + SumSeq([j \in 1..(k - 1) |-> Len(fitted.categories[fitted.categorical[j]])])

BlockOf(k) ==
    (BlockStart(k) + 1)..(BlockStart(k) + Len(fitted.categories[fitted.categorical[k]]))

\* the i-th later record with its cell in column f replaced by c, transformed
RowWith(i, f, c) ==
    transform(fitted, DataFrame(<<[new_X.rows[i] EXCEPT ![f] = c]>>)).X[1]

\* C19: transforming a record whose value for a categorical feature was
\* never seen during fit raises nothing and yields all zeros in that
\* feature's one-hot block, with the other output columns as they would be
\* for a known value.
C19_UnknownCategoryZeros ==
    transform_pc = "transformed" =>
        /\ new_out.raised = "none"
        /\ \A i \in 1..Len(new_X.rows) : \A k \in 1..Len(fitted.categorical) :
             LET f == fitted.categorical[k]
                 c == new_X.rows[i][f]
             IN (~isna(c) /\ c \notin SeenAtFit(f)) =>
                   /\ \A p \in BlockOf(k) : new_out.X[i][p].bit = 0
                   /\ \A known \in SeenAtFit(f) :
                        /\ Len(RowWith(i, f, known)) = Len(new_out.X[i])
                        /\ \A p \in (1..Len(new_out.X[i])) \ BlockOf(k) :
                             new_out.X[i][p] = RowWith(i, f, known)[p]

\* a record with a sex value beyond the two levels of fit time was
\* transformed
C19_Witness ==
    /\ transform_pc = "transformed"
    /\ new_out.raised = "none"
    /\ Len(fitted.categories["sex"]) = 2
    /\ \E i \in 1..Len(new_X.rows) :
         /\ new_X.rows[i]["sex"] = Num(MaxVal + 1)
         /\ new_X.rows[i]["age"] = Num(MaxVal + 1)

\* the width of the matrix fit_transform returned
FitWidth == Len(fit_out.X[1])

\* the output row i has the scaled block, then the one-hot block, then the
\* cells of the columns outside the configuration as they came in
BlocksInOrder(i) ==
    LET row == new_out.X[i]
        nnum == Len(fitted.numerical)
        ncat == SumSeq([j \in 1..Len(fitted.categorical) |->
                          Len(fitted.categories[fitted.categorical[j]])])
    IN /\ Len(row) = nnum + ncat + Len(fitted.remainder)
       /\ \A p \in 1..nnum : row[p].kind = "scaled"
       /\ \A p \in (nnum + 1)..(nnum + ncat) : row[p].kind = "onehot"
       /\ \A p \in 1..Len(fitted.remainder) :
            row[nnum + ncat + p] = new_X.rows[i][fitted.remainder[p]]

\* C20: every transform by a fitted preprocessor of records with the same
\* column set returns one output row per input row with no missing values,
\* the column count of fit time and the same column order, whatever
\* categorical levels the records hold.
C20_SameShapeNoMissing ==
    transform_pc = "transformed" =>
        /\ new_out.raised = "none"
        /\ Len(new_out.X) = Len(new_X.rows)
        /\ \A i \in 1..Len(new_out.X) :
             /\ Len(new_out.X[i]) = FitWidth
             /\ BlocksInOrder(i)
             /\ \A p \in 1..Len(new_out.X[i]) : new_out.X[i][p].kind # "nan"

\* C20 as the code has it: one output row per input row, the column count
\* and order of fit time, and no missing value in the scaled and one-hot
\* blocks; a column outside the configuration is passed through as it came,
\* a missing value included.
C20_SameShapeMissingPassedThrough ==
    transform_pc = "transformed" =>
        /\ new_out.raised = "none"
        /\ Len(new_out.X) = Len(new_X.rows)
        /\ \A i \in 1..Len(new_out.X) :
             /\ Len(new_out.X[i]) = FitWidth
             /\ BlocksInOrder(i)
             /\ \A p \in 1..Len(new_out.X[i]) :
                  new_out.X[i][p].kind = "nan" =>
                     /\ p > Len(new_out.X[i]) - Len(fitted.remainder)
                     /\ isna(new_X.rows[i][fitted.remainder[
                            p - (Len(new_out.X[i]) - Len(fitted.remainder))]])

\* two records were transformed, one with missing values in every column
\* and one with an unseen level, by a preprocessor with a passthrough column
C20_Witness ==
    /\ transform_pc = "transformed"
    /\ Len(new_out.X) = 2
    /\ fitted.remainder = <<"extra">>
    /\ \A c \in new_X.columns : isna(new_X.rows[1][c])
    /\ new_X.rows[2]["sex"] = Num(MaxVal + 1)
    /\ new_out.X[1][FitWidth].kind = "nan"


\* ------------------------------------------------------------- split_data
\* the split_data calls so far that returned partitions
Returned == {h \in 1..Len(split_calls) : split_calls[h].ret.raised = "none"}

Abs(a) == IF a < 0 THEN -a ELSE a

\* the rows of class c in a target partition
Members(part, c) == Cardinality({i \in DOMAIN part : part[i] = c})

\* every row of X lands in exactly one partition, with its own target, and
\* the two partitions hold all the rows
RowsPaired(ret) ==
    /\ DOMAIN ret.X_train \cap DOMAIN ret.X_test = {}
    /\ DOMAIN ret.X_train \cup DOMAIN ret.X_test = 1..Len(split_X)
    /\ DOMAIN ret.y_train = DOMAIN ret.X_train
    /\ DOMAIN ret.y_test = DOMAIN ret.X_test
    /\ \A i \in DOMAIN ret.X_train : ret.X_train[i] = split_X[i] /\ ret.y_train[i] = split_y[i]
    /\ \A i \in DOMAIN ret.X_test : ret.X_test[i] = split_X[i] /\ ret.y_test[i] = split_y[i]
    /\ Cardinality(DOMAIN ret.X_train) + Cardinality(DOMAIN ret.X_test) = Len(split_X)

\* C21 as stated: every split_data call that returns puts each row, with its
\* target, in exactly one of the two partitions, the sizes add up to n, and
\* each class's test count is less than one row away from test_size times
\* the class's count
C21_SplitWithinOneRowOfTestSize ==
    \A h \in Returned :
        LET c == split_calls[h]
        IN /\ RowsPaired(c.ret)
           /\ \A k \in Classes(split_y) :
                Abs(c.test_size.den * Members(c.ret.y_test, k)
                    - c.test_size.num * ClassCount(split_y, k)) < c.test_size.den

\* C21 amended: the same partition law, and each class's test count is less
\* than one row away from the class's share of the test partition, that is
\* (test rows / n) times the class's count
C21_SplitWithinOneRowOfShare ==
    \A h \in Returned :
        LET c == split_calls[h]
            n == Len(split_y)
            n_test == Cardinality(DOMAIN c.ret.y_test)
        IN /\ RowsPaired(c.ret)
           /\ \A k \in Classes(split_y) :
                Abs(n * Members(c.ret.y_test, k) - n_test * ClassCount(split_y, k)) < n

\* a call on both classes returned, and one class's test count is a whole
\* row away from test_size times its count
C21_Witness ==
    \E h \in Returned :
        LET c == split_calls[h]
        IN /\ Classes(split_y) = {0, 1}
           /\ c.ret.X_train # <<>> /\ c.ret.X_test # <<>>
           /\ \E k \in Classes(split_y) :
                Abs(c.test_size.den * Members(c.ret.y_test, k)
                    - c.test_size.num * ClassCount(split_y, k)) = c.test_size.den

\* Python's round of a / d: to the nearest integer, a half to the even one
PyRound(a, d) ==
    LET q == a \div d
        r == a % d
    IN IF 2 * r < d THEN q
       ELSE IF 2 * r > d THEN q + 1
       ELSE IF q % 2 = 0 THEN q ELSE q + 1

\* C22 as stated: a split that returns holds round(n * test_size) rows in
\* the test partition and the rest in the train partition
C22_TestRowsRounded ==
    \A h \in Returned :
        LET c == split_calls[h]
            n == Len(split_y)
        IN /\ Cardinality(DOMAIN c.ret.X_test) = PyRound(c.test_size.num * n, c.test_size.den)
           /\ Cardinality(DOMAIN c.ret.X_train) = n - PyRound(c.test_size.num * n, c.test_size.den)

\* C22 amended: a split that returns holds ceil(n * test_size) rows in the
\* test partition, the smallest whole number not below n * test_size, and
\* the rest in the train partition
C22_TestRowsCeiling ==
    \A h \in Returned :
        LET c == split_calls[h]
            n == Len(split_y)
            t == Cardinality(DOMAIN c.ret.X_test)
        IN /\ c.test_size.den * t >= c.test_size.num * n
           /\ c.test_size.den * (t - 1) < c.test_size.num * n
           /\ Cardinality(DOMAIN c.ret.X_train) = n - t

\* a split returned whose test partition is larger than round(n * test_size)
C22_Witness ==
    \E h \in Returned :
        LET c == split_calls[h]
        IN Cardinality(DOMAIN c.ret.X_test)
              > PyRound(c.test_size.num * Len(split_y), c.test_size.den)

\* C23: two split_data calls on the same X and y with the same test_size and
\* random_state return the same four partitions, whatever calls came before
\* or between them
C23_SameSeedSamePartitions ==
    \A g, h \in 1..Len(split_calls) :
        (/\ split_calls[g].test_size = split_calls[h].test_size
         /\ split_calls[g].random_state = split_calls[h].random_state)
        => split_calls[g].ret = split_calls[h].ret

\* the first and the third call had the same arguments and returned, the call
\* between them had another seed and returned other partitions
C23_Witness ==
    /\ Len(split_calls) = 3
    /\ split_calls[1].test_size = split_calls[3].test_size
    /\ split_calls[1].random_state = split_calls[3].random_state
    /\ split_calls[2].test_size = split_calls[1].test_size
    /\ split_calls[2].random_state # split_calls[1].random_state
    /\ split_calls[1].ret.raised = "none"
    /\ split_calls[2].ret # split_calls[1].ret


\* a class of the run's target vector has fewer than 2 members
ThinClass == \E c \in Classes(y) : ClassCount(y, c) < 2

\* C24: when a class has fewer than 2 members split_data raises and returns
\* no partitions; the run ends there, with no candidate trained or registered
\* and nothing written under models/
C24_ThinClassAbortsRun ==
    (ThinClass /\ pc \notin {"setup", "load", "prepare", "split"})
    => /\ pc = "failed"
       /\ error = [type |-> "ValueError", call |-> "train_test_split"]
       /\ train_idx = {} /\ test_idx = {}
       /\ cur = 0
       /\ results = EmptyDict
       /\ \A m \in ModelIds : registry.versions[m] = 0
       /\ writes = {}
       /\ disk \in {NoFiles, OldFiles}

\* a run with candidates to train ended in split_data on a target vector with
\* one class of a single row and another of three, the older artifacts still
\* in place
C24_Witness ==
    /\ pc = "failed"
    /\ error.call = "train_test_split"
    /\ Len(y) = 4
    /\ ClassCount(y, 0) = 1
    /\ Len(models_to_train) > 0
    /\ disk = OldFiles


\* the file at path f was written by this run
FromThisRun(f) == disk[f].kind \notin {"absent", "previous run"}

\* nothing is written before every configured candidate is trained and
\* evaluated, the winner selected and the promotion block left; a run that
\* fails before its writes leaves models/ as it found it
WritesComeLast ==
    /\ (pc = "save" \/ writes # {}) =>
          /\ cur = Len(models_to_train) + 1
          /\ \A k \in 1..Len(models_to_train) : models_to_train[k] \in Trained
          /\ best_model_name = PyMax(results.keys, roc_auc_of)
    /\ (pc = "failed" /\ error.type # "OSError") =>
          (writes = {} /\ disk \in {NoFiles, OldFiles})
    /\ (writes = {}) => disk \in {NoFiles, OldFiles}

\* a write happens in the step after the promotion block only
WritesAfterPromotion == [][(writes' # writes \/ disk' # disk) => pc = "save"]_vars

MetricKeys ==
    {"cv_accuracy_mean", "cv_accuracy_std", "test_accuracy", "precision", "recall",
     "f1_score", "roc_auc"}

CvKeys == {"cv_accuracy_mean", "cv_accuracy_std"}

\* the evaluate_model calls so far that returned a record
Evaluated == {h \in 1..Len(eval_calls) : eval_calls[h].ret.raised = "none"}

\* a fraction between 0 and 1
UnitFraction(v) == v.den > 0 /\ 0 <= v.num /\ v.num <= v.den

\* a metric value in [0, 1]; a root is, when its radicand is
InUnit(v) ==
    /\ v # NaN
    /\ IF "sqrt" \in DOMAIN v THEN UnitFraction(v.sqrt) ELSE UnitFraction(v)

\* binary inputs on which every step of evaluate_model is defined: both
\* classes in the test partition, at least two rows of each class in the
\* train partition, and no more folds than the larger class has rows
WellPosed(c) ==
    LET y_train == LabelsOf(c.train)
    IN /\ Classes(LabelsOf(c.test)) = {0, 1}
       /\ Classes(y_train) = {0, 1}
       /\ \A k \in {0, 1} : ClassCount(y_train, k) >= 2
       /\ \E k \in {0, 1} : ClassCount(y_train, k) >= c.cv_folds

\* C25: the record evaluate_model returns has exactly the seven keys, and on
\* well-posed binary inputs it returns and every value lies in [0, 1]
C25_MetricsInUnitInterval ==
    \A h \in 1..Len(eval_calls) :
        LET c == eval_calls[h]
        IN /\ h \in Evaluated => DOMAIN c.ret.metrics = MetricKeys
           /\ WellPosed(c) =>
                /\ h \in Evaluated
                /\ \A k \in MetricKeys : InUnit(c.ret.metrics[k])

\* a well-posed call returned a precision of one half and scores that differ
\* between the folds
C25_Witness ==
    \E h \in Evaluated :
        LET c == eval_calls[h]
        IN /\ WellPosed(c)
           /\ c.ret.metrics.precision = [num |-> 1, den |-> 2]
           /\ c.ret.metrics.cv_accuracy_std.sqrt.num > 0

\* the folds 0 .. n_splits - 1 of a fold assignment, as sets of rows
FoldSets(fold, n_splits) ==
    [f \in 0..(n_splits - 1) |-> {i \in DOMAIN fold : fold[i] = f}]

\* the sets are pairwise disjoint and hold each of the rows 1 .. n
PartitionOf(sets, n) ==
    /\ \A f, g \in DOMAIN sets : f # g => sets[f] \cap sets[g] = {}
    /\ UNION {sets[f] : f \in DOMAIN sets} = 1..n

\* C26: the two cross-validation metrics are the same for the same model
\* class, train partition and cv_folds, whatever the test partition; the
\* folds are pairwise disjoint and hold every train row; the other five
\* metrics are the same for the same fitted model and test partition,
\* whatever the train partition; the model handed in is the model left behind
C26_MetricsDependOnTheirPartition ==
    /\ \A g, h \in Evaluated :
         \A a \in {eval_calls[g]} : \A b \in {eval_calls[h]} :
            /\ (a.train = b.train /\ a.cv_folds = b.cv_folds /\ a.model.class = b.model.class)
               => \A k \in CvKeys : a.ret.metrics[k] = b.ret.metrics[k]
            /\ (a.model = b.model /\ a.test = b.test)
               => \A k \in MetricKeys \ CvKeys : a.ret.metrics[k] = b.ret.metrics[k]
    /\ \A h \in Evaluated :
         \A c \in {eval_calls[h]} :
         \A sets \in {FoldSets(test_folds(LabelsOf(c.train), c.cv_folds), c.cv_folds)} :
            PartitionOf(sets, Len(c.train))
    /\ \A h \in 1..Len(eval_calls) : eval_calls[h].ret.model = eval_calls[h].model

\* two calls returned; the second had another test partition and gave another
\* test accuracy, and then again the same train partition gave folds of more
\* than one row
C26_Witness ==
    /\ Len(eval_calls) = 2
    /\ Evaluated = {1, 2}
    /\ eval_calls[1].train = eval_calls[2].train
    /\ eval_calls[1].test # eval_calls[2].test
    /\ eval_calls[1].ret.metrics.test_accuracy # eval_calls[2].ret.metrics.test_accuracy
    /\ Cardinality(FoldSets(test_folds(LabelsOf(eval_calls[1].train),
                                        eval_calls[1].cv_folds),
                             eval_calls[1].cv_folds)[0]) = 2


\* --------------------------------------------------------- the two schemas
\* every field of the schema is there and holds a whole number
IntegerValued(body) ==
    \A k \in SchemaKeys :
        /\ k \in DOMAIN body.val
        /\ body.val[k].kind = "num"
        /\ body.val[k].twice % 2 = 0

\* C27: the two schemas have the same 13 fields and bounds: a body that
\* PatientFeatures accepts gets an empty list from validate_features, and a
\* record of whole numbers that validate_features accepts is accepted by
\* PatientFeatures
C27_SchemasAgree ==
    /\ \A k \in SchemaKeys :
         /\ PatientFields[k].ge = FEATURE_SCHEMA[k].min
         /\ PatientFields[k].le = FEATURE_SCHEMA[k].max
    /\ (schema_pc \in {"parsed", "both"} /\ parsed.ok) => dump_errors = <<>>
    /\ (schema_pc = "both" /\ IntegerValued(schema_body) /\ body_errors = <<>>) => parsed.ok

\* both schemas took a record of whole numbers with the age at its upper bound
\* and an oldpeak made whole
C27_Witness ==
    /\ schema_pc = "both"
    /\ IntegerValued(schema_body)
    /\ schema_body.val["age"] = Num(120)
    /\ body_errors = <<>>
    /\ parsed.ok
    /\ dump_errors = <<>>

\* the version promote_model worked on: the one named, or the latest one
PromotionTarget(c) ==
    IF c.version # NoVersion \/ VersionsOf(c.met, c.model_name) = {} THEN c.version
    ELSE Highest(VersionsOf(c.met, c.model_name))

Promoted == script_pc = "done" /\ script_call.op = "promote_model"

\* C29: whenever promote_model returns True, the target version is in
\* Production and no other version of the model is, whatever succeeds or
\* fails among the archive calls and the two promotion methods; the second
\* method is tried only after the first failed with a representation error;
\* and a call that returns False has not changed the stage of its target.
C29_PromotedIsOnlyProduction ==
    Promoted =>
        /\ script_call.ret =>
             \A v \in VersionsOf(model_versions, script_call.model_name) :
                model_versions[script_call.model_name][v] = "Production"
                    <=> v = PromotionTarget(script_call)
        /\ (\E i \in 1..Len(script_call.tried) : script_call.tried[i] = "method 2")
              => script_call.env.method1 = "RepresentationError"
        /\ (~script_call.ret /\ PromotionTarget(script_call) \in VersionsOf(script_call.met, script_call.model_name))
              => model_versions[script_call.model_name][PromotionTarget(script_call)]
                    = script_call.met[script_call.model_name][PromotionTarget(script_call)]

\* the parts of C29 about the second method and about a call returning False
C29_SecondMethodAfterRepresentationError ==
    (Promoted /\ \E i \in 1..Len(script_call.tried) : script_call.tried[i] = "method 2")
        => script_call.env.method1 = "RepresentationError"

C29_FalseLeavesTarget ==
    (Promoted /\ ~script_call.ret) =>
        \A v \in VersionsOf(script_call.met, script_call.model_name) :
            v = PromotionTarget(script_call) =>
                model_versions[script_call.model_name][v] = script_call.met[script_call.model_name][v]

CleanedUp == script_pc = "done" /\ script_call.op = "cleanup_old_versions"

NamesOf(reg) == DOMAIN reg

\* the versions a call removed from a model
DeletedOf(name) ==
    {v \in DOMAIN model_versions[name] :
        script_call.met[name][v] # NoStage /\ model_versions[name][v] = NoStage}

\* the versions of a model that are not in Production, as the call met them
NonProduction(name) ==
    {v \in DOMAIN script_call.met[name] : script_call.met[name][v] \notin {NoStage, "Production"}}

\* the keep_last highest-numbered of them
Recent(name) ==
    {v \in NonProduction(name) :
        Cardinality({w \in NonProduction(name) : w > v}) < script_call.keep_last}

\* the models a call got to: the one named or all of them, up to the first
\* whose version search raised
Processed(name) ==
    /\ script_call.model_name \in {NoName, name}
    /\ script_call.env.search_fails # "search_registered_models"
    /\ \A i, j \in 1..Len(RegisteredNames) :
          (RegisteredNames[j] = name /\ i <= j
             /\ script_call.model_name \in {NoName, RegisteredNames[i]})
            => script_call.env.search_fails # RegisteredNames[i]

\* C30: cleanup_old_versions never deletes a Production version nor one of the
\* keep_last highest-numbered other versions of a model; every other version
\* of a processed model is deleted when its delete call succeeds, whether or
\* not another delete failed; and with a model name given no version of
\* another model is deleted.
C30_CleanupKeepsProductionAndRecent ==
    CleanedUp =>
        \A name \in NamesOf(model_versions) :
            /\ \A v \in DeletedOf(name) :
                  /\ script_call.met[name][v] # "Production"
                  /\ v \notin Recent(name)
            /\ Processed(name) =>
                  \A v \in NonProduction(name) \ Recent(name) :
                      v \notin script_call.env.delete_fails => v \in DeletedOf(name)
            /\ (script_call.model_name \notin {NoName, name}) => DeletedOf(name) = {}
            /\ \A v \in DOMAIN model_versions[name] :
                  v \notin DeletedOf(name) => model_versions[name][v] = script_call.met[name][v]

\* a cleanup of one named model that kept a Production version and a recent
\* one, deleted an old version after the delete of another one had failed,
\* and left the other model's old versions alone
C30_Witness ==
    /\ CleanedUp
    /\ script_call.ret
    /\ script_call.model_name = RegisteredNames[1]
    /\ script_call.keep_last = 1
    /\ \E v \in DOMAIN script_call.met[RegisteredNames[1]] :
          script_call.met[RegisteredNames[1]][v] = "Production"
    /\ DeletedOf(RegisteredNames[1]) # {}
    /\ NonProduction(RegisteredNames[2]) \ Recent(RegisteredNames[2]) # {}
    /\ DeletedOf(RegisteredNames[2]) = {}


=============================================================================
